---- MODULE Spec2Model ----
(***************************************************************************)
(* State-machine model of the Naim integration's device client             *)
(* (uc_intg_naim/client.py) and media-player entity                        *)
(* (uc_intg_naim/media_player.py).                                         *)
(*                                                                         *)
(* Representation of Python values:                                        *)
(*   - a dict is a function whose DOMAIN is its set of keys;               *)
(*   - Optional[dict] is [some |-> BOOLEAN, d |-> dict];                   *)
(*   - a text body is a sequence of one-character strings, so that         *)
(*     substring tests and lower() are computed, not assumed;              *)
(*   - a "/"-separated path (URL path, ussi) is its sequence of segments;  *)
(*   - a display name is its sequence of space-separated words.            *)
(* The device is the environment: every request an operation sends is      *)
(* answered by a reply drawn from a bounded set.                           *)
(***************************************************************************)
EXTENDS Integers, Sequences, FiniteSets, TLC

VARIABLES
    client,       \* NaimClient fields: session, is_connected, api_base, available_inputs
    mp,           \* NaimMediaPlayer fields (_attr_*, _connected, _monitoring, _last_status)
    call,         \* the operation that ran last, with its arguments and what it observed
    reqs,         \* the HTTP requests that operation put on the wire, in order
    result,       \* what that operation returned
    lastConnect,  \* what the most recent connect() saw (history)
    tasks,        \* the _periodic_update tasks of the event loop, by slot
    device,       \* the device's own volume, and who changed it (history)
    steppers,     \* the volume_up() calls in flight, by caller
    driver        \* driver.py's globals and the _initialize_integration calls in flight

vars == <<client, mp, call, reqs, result, lastConnect, tasks, device, steppers, driver>>

(***************************************************************************)
(* Bounds                                                                  *)
(***************************************************************************)
MaxInputs == 2      \* longest cached input list
MaxTasks == 2       \* _periodic_update tasks that exist at one time
MaxSteppers == 2    \* volume_up() calls in flight at one time
MaxExternal == 1    \* volume changes by another party
MaxCallers == 2     \* calls of _initialize_integration in one run

(***************************************************************************)
(* Text: str.lower() and the `in` substring test                           *)
(***************************************************************************)
UpperChars ==
    <<"A","B","C","D","E","F","G","H","I","J","K","L","M",
      "N","O","P","Q","R","S","T","U","V","W","X","Y","Z">>

LowerChars ==
    <<"a","b","c","d","e","f","g","h","i","j","k","l","m",
      "n","o","p","q","r","s","t","u","v","w","x","y","z">>

LowerChar(ch) ==
    IF \E i \in 1..Len(UpperChars) : UpperChars[i] = ch
    THEN LowerChars[CHOOSE i \in 1..Len(UpperChars) : UpperChars[i] = ch]
    ELSE ch

Lower(text) == [i \in 1..Len(text) |-> LowerChar(text[i])]

UpperChar(ch) ==
    IF \E i \in 1..Len(LowerChars) : LowerChars[i] = ch
    THEN UpperChars[CHOOSE i \in 1..Len(LowerChars) : LowerChars[i] = ch]
    ELSE ch

Upper(text) == [i \in 1..Len(text) |-> UpperChar(text[i])]

Contains(text, pat) ==
    \E i \in 1..(Len(text) - Len(pat) + 1) : SubSeq(text, i, i + Len(pat) - 1) = pat

T_refresh == <<"r","e","f","r","e","s","h">>
T_naim == <<"n","a","i","m">>
T_naim_slash == <<"n","a","i","m","/">>
T_naim_index == <<"n","a","i","m","/","i","n","d","e","x",".","f","c","g","i">>

\* Bodies a device can answer the root endpoint with.
RedirectPage ==      \* "Refresh:naim/index.fcgi"
    <<"R","e","f","r","e","s","h",":">> \o T_naim_index
RedirectNoMarker ==  \* "REFRESH NAIM"
    <<"R","E","F","R","E","S","H"," ","N","A","I","M">>
PlainNaimText ==     \* "see naim/"
    <<"s","e","e"," ">> \o T_naim_slash
PlainText ==         \* "ok"
    <<"o","k">>

(***************************************************************************)
(* URLs                                                                    *)
(***************************************************************************)
base_url == [netloc |-> "host:15081", path |-> <<>>]

NaimBase == [netloc |-> base_url.netloc, path |-> base_url.path \o <<"naim">>]

NoQuery == [k |-> "", v |-> ""]

\* An endpoint string "/a/b?k=v": abs says it starts with "/".
Endpoint(segs, query) == [abs |-> TRUE, segs |-> segs, query |-> query]

EP_root == Endpoint(<<>>, NoQuery)
EP_nowplaying == Endpoint(<<"nowplaying">>, NoQuery)
EP_system == Endpoint(<<"system">>, NoQuery)
EP_inputs == Endpoint(<<"inputs">>, NoQuery)
EP_power == Endpoint(<<"power">>, NoQuery)
EP_levels == Endpoint(<<"levels", "room">>, NoQuery)

\* urllib.parse.urljoin: a reference with an absolute path replaces the whole
\* path of the base; a relative one replaces the base path's last segment.
urljoin(base, ep) ==
    [netloc |-> base.netloc,
     path   |-> IF ep.abs
                THEN ep.segs
                ELSE (IF Len(base.path) = 0 THEN <<>>
                      ELSE SubSeq(base.path, 1, Len(base.path) - 1)) \o ep.segs,
     query  |-> ep.query]

UnderNaimPrefix(url) == Len(url.path) >= 1 /\ url.path[1] = "naim"

(***************************************************************************)
(* Transport: replies and NaimClient._request                              *)
(***************************************************************************)
\* What _request returns: None, or the decoded body. type tells a dict from
\* the other JSON values response.json() can produce (a list, a number).
None == [some |-> FALSE, type |-> "none", d |-> <<>>]
Some(d) == [some |-> TRUE, type |-> "dict", d |-> d]
SomeValue(type, v) == [some |-> TRUE, type |-> type, d |-> v]

IsDict(r) == r.type = "dict"

\* Python truthiness: None, {}, [] and 0 are falsy.
Truthy(r) ==
    /\ r.some
    /\ CASE r.type = "dict" -> DOMAIN r.d # {}
         [] r.type = "list" -> Len(r.d) # 0
         [] r.type = "int" -> r.d # 0
         [] OTHER -> FALSE

Get(d, k, default) == IF k \in DOMAIN d THEN d[k] ELSE default

\* A JSON value whose Python type matters to the code that reads it: a string
\* (v its text), an integer (v its decimal digits) or null.
PyString(s) == [t |-> "str", v |-> s]
PyInt(digits) == [t |-> "int", v |-> digits]
PyNone == [t |-> "none", v |-> ""]

\* str(x): the text of a string, the decimal digits of an integer, "None".
PyStr(x) ==
    CASE x.t = "str" -> x.v
      [] x.t = "int" -> x.v
      [] OTHER -> "None"

HTTP_OK == 200

Unreachable ==
    [reach |-> FALSE, status |-> 0, json |-> FALSE, type |-> "none", obj |-> <<>>, text |-> <<>>]
HttpError(code) ==
    [reach |-> TRUE, status |-> code, json |-> FALSE, type |-> "none", obj |-> <<>>, text |-> <<>>]
JsonReply(obj) ==
    [reach |-> TRUE, status |-> HTTP_OK, json |-> TRUE, type |-> "dict", obj |-> obj, text |-> <<>>]
\* A 200 application/json reply whose body is a JSON list or number.
JsonValueReply(type, v) ==
    [reach |-> TRUE, status |-> HTTP_OK, json |-> TRUE, type |-> type, obj |-> v, text |-> <<>>]
TextReply(text) ==
    [reach |-> TRUE, status |-> HTTP_OK, json |-> FALSE, type |-> "none", obj |-> <<>>, text |-> text]

\* A reply with another status code.
WithStatus(reply, code) == [reply EXCEPT !.status = code]
\* application/json replies whose body does not parse (response.json() raises)
\* and whose body is the JSON value null (response.json() returns None).
InvalidJsonReply ==
    [reach |-> TRUE, status |-> HTTP_OK, json |-> TRUE, type |-> "invalid", obj |-> <<>>, text |-> <<>>]
NullJsonReply ==
    [reach |-> TRUE, status |-> HTTP_OK, json |-> TRUE, type |-> "null", obj |-> <<>>, text |-> <<>>]

\* What _request makes of the device's reply once the request is on the wire:
\* None for an unreachable device and for every status but 200.
Response(reply) ==
    IF ~reply.reach THEN None
    ELSE IF reply.status = HTTP_OK
         THEN IF reply.json
              THEN IF reply.type \in {"invalid", "null"} THEN None
                   ELSE SomeValue(reply.type, reply.obj)
              ELSE IF Contains(Lower(reply.text), T_refresh) /\ Contains(Lower(reply.text), T_naim)
                   THEN Some([raw_response |-> reply.text, status_code |-> reply.status])
                   ELSE Some([response |-> reply.text])
         ELSE None

\* _request without a session returns None before anything is sent.
Request(c, resp) == IF c.session THEN resp ELSE None

\* The request _request puts on the wire (none without a session).
Wire(c, method, ep) ==
    IF c.session
    THEN <<[method |-> method, endpoint |-> ep, base |-> c.api_base,
            url |-> urljoin(c.api_base, ep), json_data |-> "None"]>>
    ELSE <<>>

(***************************************************************************)
(* Input descriptors (the "children" of GET /inputs)                       *)
(***************************************************************************)
Input(ussi, name, selectable, disabled) ==
    [ussi |-> ussi, name |-> name, selectable |-> selectable, disabled |-> disabled]

Descriptors ==
    { Input(<<"inputs", "spotify">>, <<"Spotify">>, "1", "0"),
      Input(<<"inputs", "spotify">>, <<"Spotify">>, "0", "0"),
      Input(<<"inputs", "spotify">>, <<"Spotify">>, "1", "1"),
      Input(<<"inputs", "radio">>, <<"Internet", "Radio">>, "1", "0"),
      Input(<<"inputs", "dig1">>, <<"Spotify">>, "0", "0"),
      Input(<<"streams", "tidal">>, <<"Tidal">>, "1", "0") }

RECURSIVE ListsUpTo(_, _)
ListsUpTo(pool, n) ==
    IF n = 0 THEN { <<>> }
    ELSE LET shorter == ListsUpTo(pool, n - 1)
         IN  shorter \cup { Append(l, d) : l \in { s \in shorter : Len(s) = n - 1 }, d \in pool }

InputLists == ListsUpTo(Descriptors, MaxInputs)

(***************************************************************************)
(* Replies of the handshake endpoints                                      *)
(***************************************************************************)
HandshakeDescriptors ==
    { Input(<<"inputs", "spotify">>, <<"Spotify">>, "1", "0"),
      Input(<<"inputs", "radio">>, <<"Internet", "Radio">>, "0", "0") }

RootReplies ==
    { Unreachable, HttpError(404), JsonReply(<<>>), JsonReply([version |-> "1"]),
      TextReply(RedirectPage), TextReply(RedirectNoMarker),
      TextReply(PlainNaimText), TextReply(PlainText) }

ProbeReplies == { Unreachable, JsonReply([model |-> "Uniti"]) }

\* GET /system: no answer, the device description, or a JSON list.
SystemReplies == { Unreachable, JsonReply([model |-> "Uniti"]), JsonValueReply("list", <<"x">>) }

\* GET /inputs: no answer, an object without "children", a JSON list, a JSON
\* number, or the input list.
InputsReplies(lists) ==
    { Unreachable, JsonReply([name |-> "inputs"]),
      JsonValueReply("list", <<"x">>), JsonValueReply("int", 5) }
        \cup { JsonReply([children |-> l]) : l \in lists }

\* The same, as _request hands them to its caller.
RootResponses == { Response(r) : r \in RootReplies }
ProbeResponses == { Response(r) : r \in ProbeReplies }
SystemResponses == { Response(r) : r \in SystemReplies }
InputsResponses(lists) == { Response(r) : r \in InputsReplies(lists) }

(***************************************************************************)
(* NaimClient                                                              *)
(***************************************************************************)
NewClient ==
    [session |-> FALSE, websocket |-> FALSE, ws_task |-> FALSE, is_connected |-> FALSE,
     api_base |-> base_url, available_inputs |-> <<>>]

\* connect(): whether the root response asks for the /naim prefix.
PrefixDetected(root_data) ==
    /\ IsDict(root_data)
    /\ "raw_response" \in DOMAIN root_data.d
    /\ \/ Contains(root_data.d["raw_response"], T_naim_index)
       \/ Contains(root_data.d["raw_response"], T_naim_slash)

test_endpoints == <<EP_nowplaying, EP_system, EP_inputs>>

\* connect(): how many of the test endpoints are requested (the loop breaks at
\* the first truthy answer), and whether one answered.
TestsTried(tests) ==
    IF \E i \in 1..Len(tests) : Truthy(tests[i])
    THEN CHOOSE i \in 1..Len(tests) :
            /\ Truthy(tests[i])
            /\ \A j \in 1..(i - 1) : ~Truthy(tests[j])
    ELSE Len(tests)

Revalidated(tests) == \E i \in 1..Len(tests) : Truthy(tests[i])

\* Mutant: connect() that keeps the /naim base when every test request failed.
BaseAfterTests_NoRevert(base, revalidated) == base

\* connect(): the for/else after the test requests.
BaseAfterTests(base, revalidated) == IF revalidated THEN base ELSE base_url

\* connect(): system_info.get(...) raises AttributeError unless the truthy
\* /system answer is a dict.
SystemRaises(system_info) == Truthy(system_info) /\ ~IsDict(system_info)

\* connect(): `"children" in inputs_data` raises TypeError on a number, and
\* inputs_data["children"] on a list that has the element "children".
InputsRaises(inputs_data) ==
    /\ Truthy(inputs_data)
    /\ \/ inputs_data.type = "int"
       \/ /\ inputs_data.type = "list"
          /\ "children" \in { inputs_data.d[i] : i \in 1..Len(inputs_data.d) }

\* connect(): the /inputs answer carries an input list.
InputsUsable(inputs_data) ==
    Truthy(inputs_data) /\ IsDict(inputs_data) /\ "children" \in DOMAIN inputs_data.d

\* connect() as a function of the client and of what _request returns for the
\* requests it sends: env = [root, tests, system, inputs]. The except clause
\* turns an exception into the result False (raised), leaving the fields
\* assigned so far.
ConnectOutcome(c, env) ==
    LET c0 == [c EXCEPT !.session = TRUE]
        root_data == env.root
        rootReq == Wire(c0, "GET", EP_root)
    IN  IF ~Truthy(root_data)
        THEN [client |-> c0, reqs |-> rootReq, result |-> FALSE,
              marker |-> FALSE, revalidated |-> FALSE, raised |-> FALSE]
        ELSE
        LET detected == PrefixDetected(root_data)
            c1 == IF detected THEN [c0 EXCEPT !.api_base = NaimBase] ELSE c0
            tried == IF detected THEN TestsTried(env.tests) ELSE 0
            testReqs == [i \in 1..tried |-> Wire(c1, "GET", test_endpoints[i])[1]]
            revalidated == detected /\ Revalidated(env.tests)
            c2 == IF detected
                  THEN [c1 EXCEPT !.api_base = BaseAfterTests(c1.api_base, revalidated)]
                  ELSE c1
            sysReq == Wire(c2, "GET", EP_system)
            inputs_data == env.inputs
            inpReq == Wire(c2, "GET", EP_inputs)
            c3 == [c2 EXCEPT
                     !.available_inputs =
                         IF InputsUsable(inputs_data) THEN inputs_data.d["children"] ELSE <<>>,
                     !.is_connected = TRUE]
        IN  IF SystemRaises(env.system)
            THEN [client |-> c2, reqs |-> rootReq \o testReqs \o sysReq, result |-> FALSE,
                  marker |-> detected, revalidated |-> revalidated, raised |-> TRUE]
            ELSE IF InputsRaises(inputs_data)
            THEN [client |-> c2, reqs |-> rootReq \o testReqs \o sysReq \o inpReq,
                  result |-> FALSE, marker |-> detected, revalidated |-> revalidated,
                  raised |-> TRUE]
            ELSE [client |-> c3, reqs |-> rootReq \o testReqs \o sysReq \o inpReq,
                  result |-> TRUE, marker |-> detected, revalidated |-> revalidated,
                  raised |-> FALSE]

\* Mutant: disconnect() that does not release the session.
DisconnectOutcome_KeepSession(c) ==
    [c EXCEPT !.is_connected = FALSE, !.ws_task = FALSE, !.websocket = FALSE]

\* disconnect()
DisconnectOutcome(c) ==
    [c EXCEPT !.is_connected = FALSE, !.ws_task = FALSE, !.websocket = FALSE,
              !.session = FALSE]

(***************************************************************************)
(* NaimMediaPlayer construction                                            *)
(***************************************************************************)
NewMediaPlayer ==
    [attr_state |-> "OFF", attr_volume |-> 0, attr_muted |-> FALSE,
     attr_media_position |-> 0, attr_media_title |-> "", attr_media_artist |-> "",
     attr_media_album |-> "", attr_media_image_url |-> "", attr_source |-> <<>>,
     attr_repeat |-> "OFF", attr_shuffle |-> FALSE, attr_source_list |-> <<>>,
     last_status |-> <<>>, connected |-> FALSE, monitoring |-> FALSE, update_task |-> 0]

(***************************************************************************)
(* The event loop's polling tasks                                          *)
(***************************************************************************)
TaskIds == 1..MaxTasks

\* pc is the task's suspension point: "new" (created, not started), "sleep"
\* (asyncio.sleep(5)), "power" / "nowplaying" / "volume" (the request of the
\* refresh it awaits), "backoff" (asyncio.sleep(30)); "none" is a free slot.
\* cancelled: cancel() was called and CancelledError is yet to be delivered.
NoTask == [pc |-> "none", cancelled |-> FALSE, wait |-> 0]

NewTasks == [t \in TaskIds |-> NoTask]

\* The device's volume. initial: the volume before any caller touched it;
\* writes, external: how many volume_up() writes and changes by others it has
\* seen; last: the caller whose write came last (0: none or another party).
NewDevice(volume) ==
    [volume |-> volume, initial |-> volume, writes |-> 0, external |-> 0, last |-> 0]

\* A volume_up() call: where it is, the volume it read, and how many writes
\* the device had seen when it read.
StepperIds == 1..MaxSteppers

NewSteppers == [i \in StepperIds |-> [pc |-> "idle", current_volume |-> 0, writes_seen |-> 0]]

\* driver.py's globals: the configured devices in dict order, entities_ready,
\* the device state last handed to the API, the holder of initialization_lock
\* (0: free), the three registries and api.available_entities. History per
\* device: open counts the clients _initialize_integration connected and
\* neither stored nor disconnected, created the media players it constructed,
\* added the times it added the device's entities. callers: the calls of
\* _initialize_integration.
CallerIds == 1..MaxCallers

DeviceIds == { "a", "b" }

NoCall ==
    [pc |-> "idle", via |-> "", index |-> 0, size |-> 0, connected_devices |-> 0,
     answered |-> {}]

NewDriver(devices) ==
    [devices |-> devices, entities_ready |-> FALSE, device_state |-> "DISCONNECTED",
     lock |-> 0, clients |-> {}, media_players |-> {}, remotes |-> {},
     available_entities |-> {},
     open |-> [id \in DeviceIds |-> 0], created |-> [id \in DeviceIds |-> 0],
     added |-> [id \in DeviceIds |-> 0],
     callers |-> [i \in CallerIds |-> NoCall]]

(***************************************************************************)
(* Connection lifecycle of one client                                      *)
(***************************************************************************)
\* The test endpoints are requested only after a root response with the marker.
AsksForPrefix(root) == Truthy(root) /\ PrefixDetected(root)

\* /inputs is requested only when the /system answer did not end connect().
HandshakeTails(lists) ==
    { [system |-> s, inputs |-> i] :
        s \in { x \in SystemResponses : ~SystemRaises(x) }, i \in InputsResponses(lists) }
    \cup
    { [system |-> s, inputs |-> None] : s \in { x \in SystemResponses : SystemRaises(x) } }

EnvsOver(lists) ==
    { [root |-> r, tests |-> <<>>, system |-> t.system, inputs |-> t.inputs] :
        r \in { x \in RootResponses : ~AsksForPrefix(x) }, t \in HandshakeTails(lists) }
    \cup
    { [root |-> r, tests |-> <<t1, t2, t3>>, system |-> t.system, inputs |-> t.inputs] :
        r \in { x \in RootResponses : AsksForPrefix(x) },
        t1 \in ProbeResponses, t2 \in ProbeResponses, t3 \in ProbeResponses,
        t \in HandshakeTails(lists) }

Envs == EnvsOver(ListsUpTo(HandshakeDescriptors, MaxInputs))

Init ==
    /\ client = NewClient
    /\ mp = NewMediaPlayer
    /\ call = [op |-> "init"]
    /\ reqs = <<>>
    /\ result = FALSE
    /\ lastConnect = [done |-> FALSE, ok |-> FALSE, marker |-> FALSE, revalidated |-> FALSE]
    /\ tasks = NewTasks
    /\ device = NewDevice(0)
    /\ steppers = NewSteppers
    /\ driver = NewDriver(<<>>)

Connect(env) ==
    \E out \in { ConnectOutcome(client, env) } :
        /\ client' = out.client
        /\ reqs' = out.reqs
        /\ result' = out.result
        /\ call' = [op |-> "connect", marker |-> out.marker, revalidated |-> out.revalidated,
                    root_data |-> Truthy(env.root), system_info |-> Truthy(env.system),
                    input_list |-> InputsUsable(env.inputs), raised |-> out.raised]
        /\ lastConnect' = [done |-> TRUE, ok |-> out.result, marker |-> out.marker,
                           revalidated |-> out.revalidated]
        /\ UNCHANGED <<mp, tasks, device, steppers, driver>>

Disconnect ==
    /\ client' = DisconnectOutcome(client)
    /\ reqs' = <<>>
    /\ result' = FALSE
    /\ call' = [op |-> "disconnect", after |-> call.op, had_session |-> client.session]
    /\ UNCHANGED <<mp, lastConnect, tasks, device, steppers, driver>>

\* get_status(): one GET /nowplaying
GetStatus(reply) ==
    /\ reqs' = Wire(client, "GET", EP_nowplaying)
    /\ result' = Request(client, reply).some
    /\ call' = [op |-> "get_status"]
    /\ UNCHANGED <<client, mp, lastConnect, tasks, device, steppers, driver>>

Next ==
    \/ \E env \in Envs : Connect(env)
    \/ Disconnect
    \/ \E reply \in ProbeResponses : GetStatus(reply)

Spec == Init /\ [][Next]_vars

(***************************************************************************)
(* int(): decimal strings, as sequences of characters                      *)
(***************************************************************************)
Digits == <<"0","1","2","3","4","5","6","7","8","9">>

IsDigit(ch) == \E i \in 1..Len(Digits) : Digits[i] = ch

DigitValue(ch) == (CHOOSE i \in 1..Len(Digits) : Digits[i] = ch) - 1

RECURSIVE DecimalValue(_)
DecimalValue(s) ==
    IF Len(s) = 0 THEN 0
    ELSE 10 * DecimalValue(SubSeq(s, 1, Len(s) - 1)) + DigitValue(s[Len(s)])

Unsigned(s) == IF Len(s) > 0 /\ s[1] \in {"-", "+"} THEN Tail(s) ELSE s

\* int(s) raises ValueError unless s is an optionally signed run of digits.
IsInt(s) == Len(Unsigned(s)) > 0 /\ \A i \in 1..Len(Unsigned(s)) : IsDigit(Unsigned(s)[i])

IntOf(s) ==
    IF Len(s) > 0 /\ s[1] = "-" THEN 0 - DecimalValue(Unsigned(s)) ELSE DecimalValue(Unsigned(s))

Min(a, b) == IF a <= b THEN a ELSE b
Max(a, b) == IF a >= b THEN a ELSE b

(***************************************************************************)
(* Volume commands of NaimClient                                           *)
(***************************************************************************)
EP_set_volume(volume) == Endpoint(<<"levels", "room">>, [k |-> "volume", v |-> ToString(volume)])

\* Mutant: set_volume() that only checks the upper limit.
set_volume_NoLowerCheck(c, volume, resp) ==
    IF volume > 100
    THEN [reqs |-> <<>>, result |-> FALSE]
    ELSE [reqs |-> Wire(c, "PUT", EP_set_volume(volume)), result |-> Request(c, resp).some]

\* set_volume(volume); resp is what _request returns for the PUT.
set_volume(c, volume, resp) ==
    IF ~(0 <= volume /\ volume <= 100)
    THEN [reqs |-> <<>>, result |-> FALSE]
    ELSE [reqs |-> Wire(c, "PUT", EP_set_volume(volume)), result |-> Request(c, resp).some]

\* volume_up / volume_down: the value handed to set_volume.
volume_up_target(current_volume, step) == Min(100, current_volume + step)
volume_down_target(current_volume, step) == Max(0, current_volume - step)

\* Mutant: volume_up() that adds the step without the min(100, ...).
volume_step_Unclamped(c, up, step, volresp, putresp) ==
    LET volume_info == Request(c, volresp)
        getReq == Wire(c, "GET", EP_levels)
    IN  IF Truthy(volume_info) /\ "volume" \in DOMAIN volume_info.d
        THEN IF ~IsInt(volume_info.d["volume"])
             THEN [reqs |-> getReq, result |-> FALSE, raised |-> TRUE]
             ELSE LET current_volume == IntOf(volume_info.d["volume"])
                      new_volume == IF up THEN current_volume + step ELSE current_volume - step
                      set == set_volume(c, new_volume, putresp)
                  IN  [reqs |-> getReq \o set.reqs, result |-> set.result, raised |-> FALSE]
        ELSE [reqs |-> getReq, result |-> FALSE, raised |-> FALSE]

\* volume_up(step) (up = TRUE) and volume_down(step) (up = FALSE): volresp
\* answers the GET /levels/room, putresp the PUT that set_volume may send.
\* raised: int() of the reported volume raised ValueError out of the method.
volume_step(c, up, step, volresp, putresp) ==
    LET volume_info == Request(c, volresp)
        getReq == Wire(c, "GET", EP_levels)
    IN  IF Truthy(volume_info) /\ "volume" \in DOMAIN volume_info.d
        THEN IF ~IsInt(volume_info.d["volume"])
             THEN [reqs |-> getReq, result |-> FALSE, raised |-> TRUE]
             ELSE LET current_volume == IntOf(volume_info.d["volume"])
                      new_volume == IF up THEN volume_up_target(current_volume, step)
                                    ELSE volume_down_target(current_volume, step)
                      set == set_volume(c, new_volume, putresp)
                  IN  [reqs |-> getReq \o set.reqs, result |-> set.result, raised |-> FALSE]
        ELSE [reqs |-> getReq, result |-> FALSE, raised |-> FALSE]

(***************************************************************************)
(* Source selection of NaimClient                                          *)
(***************************************************************************)
\* str.lower() of the words that occur in display names, source ids and
\* power states.
LowerStr(w) ==
    CASE w = "Spotify" -> "spotify"
      [] w = "Internet" -> "internet"
      [] w = "Radio" -> "radio"
      [] w = "ON" -> "on"
      [] OTHER -> w

\* name.lower().replace(" ", "")
RECURSIVE NormalizedName(_)
NormalizedName(name) ==
    IF Len(name) = 0 THEN "" ELSE LowerStr(Head(name)) \o NormalizedName(Tail(name))

\* set_source(): the test that an input is the requested source.
Matches(input_info, source) ==
    \/ input_info.ussi = <<"inputs", source>>
    \/ Len(input_info.ussi) >= 2 /\ input_info.ussi[Len(input_info.ussi)] = source
    \/ NormalizedName(input_info.name) = LowerStr(source)

HasMatch(inputs, source) == \E i \in 1..Len(inputs) : Matches(inputs[i], source)

\* The entry the loop of set_source() decides on: the first that matches.
FirstMatch(inputs, source) ==
    inputs[CHOOSE i \in 1..Len(inputs) :
              /\ Matches(inputs[i], source)
              /\ \A j \in 1..(i - 1) : ~Matches(inputs[j], source)]

EP_select(source) == Endpoint(<<"inputs", source>>, [k |-> "cmd", v |-> "select"])

select_source(c, source, resp) ==
    [reqs |-> Wire(c, "GET", EP_select(source)), result |-> Request(c, resp).some]

\* Mutant: set_source() that sends the select command without looking at the
\* matching entry's selectable flag.
set_source_IgnoreSelectable(c, source, resp) == select_source(c, source, resp)

\* Mutant: set_source() that gives up when no cached entry matches.
set_source_DropUnknown(c, source, resp) ==
    IF HasMatch(c.available_inputs, source)
    THEN IF FirstMatch(c.available_inputs, source).selectable = "1"
         THEN select_source(c, source, resp)
         ELSE [reqs |-> <<>>, result |-> FALSE]
    ELSE [reqs |-> <<>>, result |-> FALSE]

\* set_source(source); resp is what _request returns for the select request.
set_source(c, source, resp) ==
    IF HasMatch(c.available_inputs, source)
    THEN IF FirstMatch(c.available_inputs, source).selectable = "1"
         THEN select_source(c, source, resp)
         ELSE [reqs |-> <<>>, result |-> FALSE]
    ELSE select_source(c, source, resp)

(***************************************************************************)
(* Commands on a client: the volume commands and set_source                *)
(***************************************************************************)
\* Volume strings a device answers GET /levels/room with.
VolumeStrings ==
    { <<"0">>, <<"2">>, <<"5","0">>, <<"9","8">>, <<"1","0","0">>,
      <<"1","0","5">>, <<"-","4">>, <<"a","b","c">> }

VolumeReplies ==
    { Unreachable, JsonReply(<<>>), JsonReply([mute |-> "0"]) }
        \cup { JsonReply([volume |-> v, mute |-> "0"]) : v \in VolumeStrings }

VolumeResponses == { Response(r) : r \in VolumeReplies }

CommandResponses == { Response(r) : r \in { Unreachable, HttpError(500), JsonReply(<<>>), JsonReply([ok |-> "1"]) } }

Volumes == { -1, 0, 50, 100, 101, 150 }

Steps == { -5, 1, 3 }

Sources == { "spotify", "Spotify", "internetradio", "radio", "tidal" }

\* The clients a command can find: a new one, and one after connect() against
\* a device with any of the input lists.
ClientsAfterConnect(lists) ==
    { NewClient } \cup { ConnectOutcome(NewClient, env).client : env \in EnvsOver(lists) }

CommandInit(lists) ==
    /\ client \in ClientsAfterConnect(lists)
    /\ mp = NewMediaPlayer
    /\ call = [op |-> "init"]
    /\ reqs = <<>>
    /\ result = FALSE
    /\ lastConnect = [done |-> client.session, ok |-> client.is_connected,
                      marker |-> FALSE, revalidated |-> FALSE]
    /\ tasks = NewTasks
    /\ device = NewDevice(0)
    /\ steppers = NewSteppers
    /\ driver = NewDriver(<<>>)

SetVolume(volume, resp) ==
    \E out \in { set_volume(client, volume, resp) } :
        /\ reqs' = out.reqs
        /\ result' = out.result
        /\ call' = [op |-> "set_volume", volume |-> volume, resp |-> resp, raised |-> FALSE]
        /\ UNCHANGED <<client, mp, lastConnect, tasks, device, steppers, driver>>

VolumeUp(step, volresp, putresp) ==
    \E out \in { volume_step(client, TRUE, step, volresp, putresp) } :
        /\ reqs' = out.reqs
        /\ result' = out.result
        /\ call' = [op |-> "volume_up", step |-> step, volume_info |-> volresp,
                    resp |-> putresp, raised |-> out.raised]
        /\ UNCHANGED <<client, mp, lastConnect, tasks, device, steppers, driver>>

VolumeDown(step, volresp, putresp) ==
    \E out \in { volume_step(client, FALSE, step, volresp, putresp) } :
        /\ reqs' = out.reqs
        /\ result' = out.result
        /\ call' = [op |-> "volume_down", step |-> step, volume_info |-> volresp,
                    resp |-> putresp, raised |-> out.raised]
        /\ UNCHANGED <<client, mp, lastConnect, tasks, device, steppers, driver>>

SetSource(source, resp) ==
    \E out \in { set_source(client, source, resp) } :
        /\ reqs' = out.reqs
        /\ result' = out.result
        /\ call' = [op |-> "set_source", source |-> source, resp |-> resp]
        /\ UNCHANGED <<client, mp, lastConnect, tasks, device, steppers, driver>>

VolumeInit == CommandInit({ <<>> })

VolumeNext ==
    \/ \E volume \in Volumes, resp \in CommandResponses : SetVolume(volume, resp)
    \/ \E step \in Steps, volresp \in VolumeResponses, putresp \in CommandResponses :
          VolumeUp(step, volresp, putresp)
    \/ \E step \in Steps, volresp \in VolumeResponses, putresp \in CommandResponses :
          VolumeDown(step, volresp, putresp)
    \/ Disconnect

VolumeSpec == VolumeInit /\ [][VolumeNext]_vars

DefaultSources == <<"radio", "bluetooth", "spotify", "dig5", "hdmi">>

\* get_sources(): ids of the selectable, not disabled inputs/<id> entries, or
\* the defaults when there is none.
RECURSIVE SelectableIds(_)
SelectableIds(inputs) ==
    IF Len(inputs) = 0 THEN <<>>
    ELSE LET input_info == Head(inputs)
             ussi == input_info.ussi
         IN  (IF /\ input_info.selectable = "1" /\ input_info.disabled # "1"
                 /\ Len(ussi) >= 2 /\ ussi[1] = "inputs"
              THEN <<ussi[Len(ussi)]>> ELSE <<>>) \o SelectableIds(Tail(inputs))

\* Mutant: get_sources() without the fallback to the defaults.
get_sources_NoDefault(c) == SelectableIds(c.available_inputs)

get_sources(c) ==
    IF SelectableIds(c.available_inputs) = <<>> THEN DefaultSources
    ELSE SelectableIds(c.available_inputs)

GetSources ==
    \E sources \in { get_sources(client) } :
        /\ reqs' = <<>>
        /\ result' = FALSE
        /\ call' = [op |-> "get_sources", source |-> "", resp |-> None, sources |-> sources]
        /\ UNCHANGED <<client, mp, lastConnect, tasks, device, steppers, driver>>

SourceInit == CommandInit(InputLists)

SourceNext ==
    \/ \E source \in Sources, resp \in CommandResponses : SetSource(source, resp)
    \/ GetSources
    \/ Disconnect

SourceSpec == SourceInit /\ [][SourceNext]_vars

(***************************************************************************)
(* NaimMediaPlayer: connect, disconnect and the status refresh             *)
(***************************************************************************)
\* get_power_state(): Optional[bool] as [some, on].
get_power_state(c, resp) ==
    LET power_info == Request(c, resp)
    IN  IF Truthy(power_info)
        THEN [some |-> TRUE,
              on |-> \/ LowerStr(Get(power_info.d, "state", "")) = "on"
                     \/ LowerStr(Get(power_info.d, "system", "")) = "on"]
        ELSE [some |-> FALSE, on |-> FALSE]

\* update_status(): _attr_state for a transportState (compared with == to
\* the strings "2", "1", "0", "3").
StateOfTransport(transport_state) ==
    CASE transport_state = PyString("2") -> "PLAYING"
      [] transport_state = PyString("1") -> "PAUSED"
      [] transport_state = PyString("0") -> "ON"
      [] transport_state = PyString("3") -> "BUFFERING"
      [] OTHER -> "ON"

\* update_status(): the source id of status["source"].
SourceOfUssi(source_ussi) ==
    IF Len(source_ussi) >= 2 /\ source_ussi[1] = "inputs"
    THEN <<source_ussi[Len(source_ussi)]>>
    ELSE source_ussi

\* update_status() after the volume block: the media fields of `status`.
MediaUpdate(m, status) ==
    IF "transportPosition" \in DOMAIN status /\ ~IsInt(status["transportPosition"])
    THEN [m EXCEPT !.attr_state = "UNAVAILABLE"]
    ELSE [m EXCEPT
            !.attr_media_position =
                (IF "transportPosition" \in DOMAIN status
                 THEN IntOf(status["transportPosition"]) ELSE 0) \div 1000,
            !.attr_media_title = Get(status, "title", ""),
            !.attr_media_artist = Get(status, "artist", ""),
            !.attr_media_album = Get(status, "album", ""),
            !.attr_media_image_url = Get(status, "artwork", ""),
            !.attr_repeat = IF Get(status, "repeat", "0") = "1" THEN "ONE" ELSE "OFF",
            !.attr_shuffle = (Get(status, "shuffle", "0") = "1"),
            !.attr_source = SourceOfUssi(Get(status, "source", <<>>))]

\* update_status() from the volume request on.
VolumeUpdate(m, c, status, volresp) ==
    LET volume_info == Request(c, volresp)
    IN  IF ~Truthy(volume_info) THEN MediaUpdate(m, status)
        ELSE IF "volume" \in DOMAIN volume_info.d /\ ~IsInt(volume_info.d["volume"])
        THEN [m EXCEPT !.attr_state = "UNAVAILABLE"]
        ELSE MediaUpdate(
                 [m EXCEPT
                    !.attr_volume = IF "volume" \in DOMAIN volume_info.d
                                    THEN IntOf(volume_info.d["volume"]) ELSE 0,
                    !.attr_muted = (Get(volume_info.d, "mute", "0") = "1")],
                 status)

\* update_status(): env = [power, status, volume] is what _request returns for
\* GET /power, GET /nowplaying and GET /levels/room. `failed` names the first
\* request that returned None, if one did.
update_status(m, c, env) ==
    IF ~m.connected
    THEN [mp |-> m, reqs |-> <<>>, failed |-> "none"]
    ELSE
    LET power_state == get_power_state(c, env.power)
        status == Request(c, env.status)
        powerReq == Wire(c, "GET", EP_power)
        statusReq == Wire(c, "GET", EP_nowplaying)
        volumeReq == Wire(c, "GET", EP_levels)
    IN  IF ~power_state.some
        THEN [mp |-> [m EXCEPT !.attr_state = "UNAVAILABLE"], reqs |-> powerReq,
              failed |-> IF Request(c, env.power).some THEN "none" ELSE "power"]
        ELSE IF ~power_state.on
        THEN [mp |-> [m EXCEPT !.attr_state = "OFF"], reqs |-> powerReq, failed |-> "none"]
        ELSE IF ~Truthy(status)
        THEN [mp |-> [m EXCEPT !.attr_state = "ON"], reqs |-> powerReq \o statusReq,
              failed |-> IF status.some THEN "none" ELSE "nowplaying"]
        ELSE [mp |-> VolumeUpdate(
                        [m EXCEPT !.last_status = status.d,
                                  !.attr_state = StateOfTransport(Get(status.d, "transportState", PyString("0")))],
                        c, status.d, env.volume),
              reqs |-> powerReq \o statusReq \o volumeReq,
              failed |-> IF Request(c, env.volume).some THEN "none" ELSE "volume"]

\* NaimMediaPlayer.connect(): the client's connect(), then get_sources() and a
\* first update_status().
FirstRefresh(m, conn, env) ==
    LET upd == update_status(
                   [m EXCEPT !.connected = TRUE, !.attr_source_list = get_sources(conn.client)],
                   conn.client, env)
    IN  [mp |-> upd.mp, client |-> conn.client, reqs |-> conn.reqs \o upd.reqs,
         result |-> TRUE, failed |-> upd.failed]

mp_connect(m, c, handshake, env) ==
    CHOOSE out \in
        { IF conn.result
          THEN FirstRefresh(m, conn, env)
          ELSE [mp |-> m, client |-> conn.client, reqs |-> conn.reqs,
                result |-> FALSE, failed |-> "none"] :
            conn \in { ConnectOutcome(c, handshake) } } : TRUE

\* start_monitoring(): a new task in the first free slot.
FreeSlot(ts) ==
    CHOOSE t \in TaskIds : ts[t].pc = "none" /\ \A u \in 1..(t - 1) : ts[u].pc # "none"

\* _update_task is None or _update_task.done()
NoLiveTask(m, ts) == m.update_task = 0 \/ ts[m.update_task].pc = "none"

CreateTask(m, ts) ==
    [mp |-> [m EXCEPT !.monitoring = TRUE, !.update_task = FreeSlot(ts)],
     tasks |-> [ts EXCEPT ![FreeSlot(ts)] = [pc |-> "new", cancelled |-> FALSE, wait |-> 0]],
     started |-> TRUE]

\* Mutant: start_monitoring() without the test that the entity is connected.
start_monitoring_NoConnectedCheck(m, ts) ==
    IF m.monitoring THEN [mp |-> m, tasks |-> ts, started |-> FALSE]
    ELSE IF NoLiveTask(m, ts) THEN CreateTask(m, ts)
    ELSE [mp |-> m, tasks |-> ts, started |-> FALSE]

\* Mutant: start_monitoring() that creates a task whenever the entity is
\* connected, without looking at _monitoring or _update_task.
start_monitoring_Unguarded(m, ts) ==
    IF ~m.connected THEN [mp |-> m, tasks |-> ts, started |-> FALSE]
    ELSE CreateTask(m, ts)

\* start_monitoring()
start_monitoring(m, ts) ==
    IF ~m.connected THEN [mp |-> m, tasks |-> ts, started |-> FALSE]
    ELSE IF m.monitoring THEN [mp |-> m, tasks |-> ts, started |-> FALSE]
    ELSE IF NoLiveTask(m, ts) THEN CreateTask(m, ts)
    ELSE [mp |-> m, tasks |-> ts, started |-> FALSE]

\* Mutant: stop_monitoring() that clears the flag and the reference but does
\* not cancel the task.
stop_monitoring_NoCancel(m, ts) ==
    IF m.monitoring
    THEN [mp |-> [m EXCEPT !.monitoring = FALSE, !.update_task = 0], tasks |-> ts]
    ELSE [mp |-> m, tasks |-> ts]

\* stop_monitoring()
stop_monitoring(m, ts) ==
    IF m.monitoring
    THEN IF ~NoLiveTask(m, ts)
         THEN [mp |-> [m EXCEPT !.monitoring = FALSE, !.update_task = 0],
               tasks |-> [ts EXCEPT ![m.update_task].cancelled = TRUE]]
         ELSE [mp |-> [m EXCEPT !.monitoring = FALSE], tasks |-> ts]
    ELSE [mp |-> m, tasks |-> ts]

\* NaimMediaPlayer.disconnect(): stop_monitoring(), then the client's disconnect().
mp_disconnect(m, ts) ==
    [mp |-> [stop_monitoring(m, ts).mp EXCEPT !.connected = FALSE],
     tasks |-> stop_monitoring(m, ts).tasks]

(***************************************************************************)
(* One media player and the device it polls                                *)
(***************************************************************************)
PowerReplies ==
    { Unreachable, JsonReply(<<>>), JsonReply([system |-> "on", state |-> "ON"]),
      JsonReply([system |-> "lona"]) }

NowPlayingReplies ==
    { Unreachable, JsonReply(<<>>),
      JsonReply([transportState |-> PyString("2"), transportPosition |-> <<"6","5","0","0","0">>,
                 title |-> "Song A", artist |-> "Artist A", album |-> "Album A",
                 artwork |-> "http://host/a.jpg", repeat |-> "0", shuffle |-> "0",
                 source |-> <<"inputs", "spotify">>]),
      JsonReply([transportState |-> PyString("1"), transportPosition |-> <<"0">>,
                 title |-> "Song B", artist |-> "Artist B", album |-> "Album B",
                 artwork |-> "http://host/b.jpg", repeat |-> "1", shuffle |-> "1",
                 source |-> <<"inputs", "radio">>]),
      JsonReply([transportState |-> PyString("9"), title |-> "Song B", repeat |-> "2",
                 source |-> <<"spotify">>]),
      JsonReply([transportState |-> PyString("3"), transportPosition |-> <<"a","b","c">>,
                 title |-> "Song A"]) }

LevelsReplies ==
    { Unreachable, JsonReply([volume |-> <<"5","0">>, mute |-> "0"]),
      JsonReply([volume |-> <<"3","0">>, mute |-> "1"]),
      JsonReply([volume |-> <<"1","0","5">>, mute |-> "0"]),
      JsonReply([volume |-> <<"a","b","c">>, mute |-> "1"]) }

RefreshEnvs ==
    { [power |-> Response(p), status |-> Response(n), volume |-> Response(v)] :
        p \in PowerReplies, n \in NowPlayingReplies, v \in LevelsReplies }

\* The handshake of the polled device: either it is unreachable, or it answers
\* the root endpoint with JSON and /inputs with its input list.
PlayerInputs == <<Input(<<"inputs", "spotify">>, <<"Spotify">>, "1", "0")>>

PlayerHandshakes ==
    { [root |-> None, tests |-> <<>>, system |-> None, inputs |-> None],
      [root |-> Response(JsonReply([version |-> "1"])), tests |-> <<>>,
       system |-> Response(JsonReply([model |-> "Uniti"])),
       inputs |-> Response(JsonReply([children |-> PlayerInputs]))] }

PlayerConnect(handshake, env) ==
    \E out \in { mp_connect(mp, client, handshake, env) } :
        /\ mp' = out.mp
        /\ client' = out.client
        /\ reqs' = out.reqs
        /\ result' = out.result
        /\ call' = [op |-> "mp_connect", failed |-> out.failed]
        /\ lastConnect' = [done |-> TRUE, ok |-> out.result, marker |-> FALSE,
                           revalidated |-> FALSE]
        /\ UNCHANGED <<tasks, device, steppers, driver>>

PlayerDisconnect ==
    /\ mp' = mp_disconnect(mp, tasks).mp
    /\ tasks' = mp_disconnect(mp, tasks).tasks
    /\ client' = DisconnectOutcome(client)
    /\ reqs' = <<>>
    /\ result' = FALSE
    /\ call' = [op |-> "mp_disconnect", failed |-> "none"]
    /\ UNCHANGED <<lastConnect, device, steppers, driver>>

UpdateStatus(env) ==
    \E out \in { update_status(mp, client, env) } :
        /\ mp' = out.mp
        /\ reqs' = out.reqs
        /\ result' = FALSE
        /\ call' = [op |-> "update_status", failed |-> out.failed]
        /\ UNCHANGED <<client, lastConnect, tasks, device, steppers, driver>>

PlayerNext ==
    \/ \E handshake \in PlayerHandshakes, env \in RefreshEnvs : PlayerConnect(handshake, env)
    \/ PlayerDisconnect
    \/ \E env \in RefreshEnvs : UpdateStatus(env)

PlayerSpec == Init /\ [][PlayerNext]_vars

(***************************************************************************)
(* The polling supervisor: start_monitoring, stop_monitoring and the       *)
(* _periodic_update task                                                   *)
(***************************************************************************)
POLL_INTERVAL == 5
BACKOFF_INTERVAL == 30

\* update_status() up to the answer of GET /power. next: the request it goes
\* on to await, or "done" when update_status() returns.
PowerStage(m, c, resp) ==
    LET power_state == get_power_state(c, resp)
    IN  IF ~power_state.some
        THEN [mp |-> [m EXCEPT !.attr_state = "UNAVAILABLE"], next |-> "done",
              failed |-> IF Request(c, resp).some THEN "none" ELSE "power"]
        ELSE IF ~power_state.on
        THEN [mp |-> [m EXCEPT !.attr_state = "OFF"], next |-> "done", failed |-> "none"]
        ELSE [mp |-> m, next |-> "nowplaying", failed |-> "none"]

\* update_status() from the answer of GET /nowplaying to the volume request.
NowPlayingStage(m, c, resp) ==
    LET status == Request(c, resp)
    IN  IF ~Truthy(status)
        THEN [mp |-> [m EXCEPT !.attr_state = "ON"], next |-> "done",
              failed |-> IF status.some THEN "none" ELSE "nowplaying"]
        ELSE [mp |-> [m EXCEPT !.last_status = status.d,
                               !.attr_state = StateOfTransport(
                                                  Get(status.d, "transportState", PyString("0")))],
              next |-> "volume", failed |-> "none"]

\* update_status() from the answer of GET /levels/room on; `status` is the
\* now-playing answer, which _last_status holds.
VolumeStage(m, c, resp) ==
    [mp |-> VolumeUpdate(m, c, m.last_status, resp), next |-> "done",
     failed |-> IF Request(c, resp).some THEN "none" ELSE "volume"]

\* Whether update_attributes() raises into _periodic_update: update_status()
\* catches every Exception of the refresh, and the publishing that follows it
\* guards its only fallible call, so nothing reaches the loop's handler.
RefreshRaises(failed) == FALSE

\* _periodic_update: the loop condition, then asyncio.sleep(5).
LoopHead(m) ==
    IF m.connected /\ m.monitoring
    THEN [pc |-> "sleep", cancelled |-> FALSE, wait |-> POLL_INTERVAL]
    ELSE NoTask

\* _periodic_update after update_attributes(): the except Exception branch
\* sleeps 30 s while monitoring, then the loop goes round.
AfterRefresh(m, failed) ==
    IF RefreshRaises(failed) /\ m.monitoring
    THEN [pc |-> "backoff", cancelled |-> FALSE, wait |-> BACKOFF_INTERVAL]
    ELSE LoopHead(m)

\* What the task does when CancelledError is raised at its suspension point:
\* inside the try it breaks out of the loop, at the backoff sleep the error
\* leaves the coroutine; either way the task is finished.
OnCancelled(pc) == NoTask

MonitorPower ==
    { Response(r) : r \in { Unreachable, JsonReply([system |-> "on", state |-> "ON"]),
                             JsonReply([system |-> "lona"]) } }

MonitorNowPlaying ==
    { Response(r) : r \in { Unreachable,
        JsonReply([transportState |-> PyString("2"), transportPosition |-> <<"6","5","0","0","0">>,
                   title |-> "Song A", source |-> <<"inputs", "spotify">>]) } }

MonitorLevels ==
    { Response(r) : r \in { Unreachable, JsonReply([volume |-> <<"5","0">>, mute |-> "0"]) } }

\* The refresh that connect() and a subscription run in one piece: the
\* device answers all of its requests or none.
MonitorEnvs ==
    { [power |-> None, status |-> None, volume |-> None],
      [power |-> Response(JsonReply([system |-> "on", state |-> "ON"])),
       status |-> Response(JsonReply([transportState |-> PyString("2"),
                     transportPosition |-> <<"6","5","0","0","0">>,
                     title |-> "Song A", source |-> <<"inputs", "spotify">>])),
       volume |-> Response(JsonReply([volume |-> <<"5","0">>, mute |-> "0"]))] }

\* driver.on_subscribe_entities for the media player: a refresh, then
\* start_monitoring().
OnSubscribe(env) ==
    /\ \E t \in TaskIds : tasks[t].pc = "none"
    /\ \E upd \in { update_status(mp, client, env) } :
         \E out \in { start_monitoring(upd.mp, tasks) } :
            /\ mp' = out.mp
            /\ tasks' = out.tasks
            /\ reqs' = upd.reqs
            /\ result' = FALSE
            /\ call' = [op |-> "subscribe", task |-> IF out.started THEN out.mp.update_task ELSE 0,
                        at |-> "", failed |-> upd.failed, refreshed |-> TRUE]
            /\ UNCHANGED <<client, lastConnect, device, steppers, driver>>

Stopped(op, out) ==
    /\ mp' = out.mp
    /\ tasks' = out.tasks
    /\ reqs' = <<>>
    /\ result' = FALSE
    /\ call' = [op |-> op, task |-> mp.update_task, at |-> "", failed |-> "none",
                refreshed |-> FALSE]
    /\ UNCHANGED <<client, lastConnect, device, steppers, driver>>

\* driver.on_unsubscribe_entities for the media player
OnUnsubscribe ==
    \E out \in { stop_monitoring(mp, tasks) } : Stopped("unsubscribe", out)

\* driver.on_disconnect (the remote disconnected)
OnRemoteDisconnect ==
    \E out \in { stop_monitoring(mp, tasks) } : Stopped("remote_disconnect", out)

\* One step of task t from suspension point `at` to the next: its new state,
\* the entity after it, the request it sends.
TaskStep(t, at, m, task, sent, failed, refreshed) ==
    /\ mp' = m
    /\ tasks' = [tasks EXCEPT ![t] = task]
    /\ reqs' = sent
    /\ result' = FALSE
    /\ call' = [op |-> "poll", task |-> t, at |-> at, failed |-> failed, refreshed |-> refreshed]
    /\ UNCHANGED <<client, lastConnect, device, steppers, driver>>

Awaiting(pc) == [pc |-> pc, cancelled |-> FALSE, wait |-> 0]

\* The event loop runs a new task up to its first sleep.
TaskStart(t) ==
    /\ tasks[t].pc = "new" /\ ~tasks[t].cancelled
    /\ TaskStep(t, "new", mp, LoopHead(mp), <<>>, "none", FALSE)

\* A sleep ends: after the 5 s sleep the refresh starts if still monitoring,
\* after the backoff sleep the loop goes round.
TimerFires(t) ==
    /\ tasks[t].pc \in {"sleep", "backoff"} /\ ~tasks[t].cancelled
    /\ IF tasks[t].pc = "sleep" /\ mp.monitoring
       THEN IF mp.connected
            THEN TaskStep(t, tasks[t].pc, mp, Awaiting("power"),
                          Wire(client, "GET", EP_power), "none", FALSE)
            ELSE TaskStep(t, tasks[t].pc, mp, AfterRefresh(mp, "none"), <<>>, "none", TRUE)
       ELSE TaskStep(t, tasks[t].pc, mp, LoopHead(mp), <<>>, "none", FALSE)

\* The answer to the refresh's request arrives.
StageStep(t, out, nextReq) ==
    IF out.next = "done"
    THEN TaskStep(t, tasks[t].pc, out.mp, AfterRefresh(out.mp, out.failed), <<>>,
                  out.failed, TRUE)
    ELSE TaskStep(t, tasks[t].pc, out.mp, Awaiting(out.next), nextReq, out.failed, FALSE)

PowerAnswer(t, resp) ==
    /\ tasks[t].pc = "power" /\ ~tasks[t].cancelled
    /\ \E out \in { PowerStage(mp, client, resp) } :
          StageStep(t, out, Wire(client, "GET", EP_nowplaying))

NowPlayingAnswer(t, resp) ==
    /\ tasks[t].pc = "nowplaying" /\ ~tasks[t].cancelled
    /\ \E out \in { NowPlayingStage(mp, client, resp) } :
          StageStep(t, out, Wire(client, "GET", EP_levels))

VolumeAnswer(t, resp) ==
    /\ tasks[t].pc = "volume" /\ ~tasks[t].cancelled
    /\ \E out \in { VolumeStage(mp, client, resp) } : StageStep(t, out, <<>>)

\* The event loop delivers CancelledError to a cancelled task.
CancelDelivered(t) ==
    /\ tasks[t].pc # "none" /\ tasks[t].cancelled
    /\ mp' = mp
    /\ tasks' = [tasks EXCEPT ![t] = OnCancelled(tasks[t].pc)]
    /\ reqs' = <<>>
    /\ result' = FALSE
    /\ call' = [op |-> "cancelled", task |-> t, at |-> tasks[t].pc, failed |-> "none",
                refreshed |-> FALSE]
    /\ UNCHANGED <<client, lastConnect, device, steppers, driver>>

MonitorNext ==
    \/ \E handshake \in PlayerHandshakes, env \in MonitorEnvs : PlayerConnect(handshake, env)
    \/ PlayerDisconnect
    \/ \E env \in MonitorEnvs : OnSubscribe(env)
    \/ OnUnsubscribe
    \/ OnRemoteDisconnect
    \/ \E t \in TaskIds : TaskStart(t)
    \/ \E t \in TaskIds : TimerFires(t)
    \/ \E t \in TaskIds, resp \in MonitorPower : PowerAnswer(t, resp)
    \/ \E t \in TaskIds, resp \in MonitorNowPlaying : NowPlayingAnswer(t, resp)
    \/ \E t \in TaskIds, resp \in MonitorLevels : VolumeAnswer(t, resp)
    \/ \E t \in TaskIds : CancelDelivered(t)

MonitorSpec == Init /\ [][MonitorNext]_vars

(***************************************************************************)
(* The status normalizer: NaimClient._normalize_status                     *)
(***************************************************************************)
\* Mutant: _transport_state_to_play_state() that looks the code up without
\* str().
transport_state_to_play_state_NoStr(transport_state) ==
    CASE transport_state = PyString("0") -> "stopped"
      [] transport_state = PyString("1") -> "paused"
      [] transport_state = PyString("2") -> "playing"
      [] transport_state = PyString("3") -> "buffering"
      [] OTHER -> "unknown"

\* _transport_state_to_play_state(): state_map.get(str(transport_state), "unknown")
transport_state_to_play_state(transport_state) ==
    CASE PyStr(transport_state) = "0" -> "stopped"
      [] PyStr(transport_state) = "1" -> "paused"
      [] PyStr(transport_state) = "2" -> "playing"
      [] PyStr(transport_state) = "3" -> "buffering"
      [] OTHER -> "unknown"

\* _normalize_status(): source_ussi.split("/")[-1] if "/" in source_ussi
\* else source_ussi
NormalizeSource(source_ussi) ==
    IF Len(source_ussi) >= 2 THEN <<source_ussi[Len(source_ussi)]>> ELSE source_ussi

\* _normalize_status(status): {} for a falsy status; raised when
\* int(transportPosition) raises ValueError.
normalize_status(status) ==
    IF DOMAIN status = {}
    THEN [raised |-> FALSE, empty |-> TRUE, d |-> <<>>]
    ELSE IF "transportPosition" \in DOMAIN status /\ ~IsInt(status["transportPosition"])
    THEN [raised |-> TRUE, empty |-> FALSE, d |-> <<>>]
    ELSE [raised |-> FALSE, empty |-> FALSE,
          d |-> [state |-> transport_state_to_play_state(
                               Get(status, "transportState", PyString("0"))),
                 source |-> NormalizeSource(Get(status, "source", <<>>)),
                 source_ussi |-> Get(status, "source", <<>>),
                 position |-> IF "transportPosition" \in DOMAIN status
                              THEN IntOf(status["transportPosition"]) ELSE 0,
                 duration |-> 0,
                 title |-> Get(status, "title", ""),
                 artist |-> Get(status, "artist", ""),
                 album |-> Get(status, "album", ""),
                 artwork |-> Get(status, "artwork", ""),
                 station |-> Get(status, "station", ""),
                 live |-> (Get(status, "live", "0") = "1"),
                 can_resume |-> (Get(status, "canResume", "0") = "1"),
                 repeat |-> (Get(status, "repeat", "0") = "1"),
                 shuffle |-> (Get(status, "shuffle", "0") = "1"),
                 bit_depth |-> Get(status, "bitDepth", ""),
                 bit_rate |-> Get(status, "bitRate", ""),
                 sample_rate |-> Get(status, "sampleRate", ""),
                 codec |-> Get(status, "codec", ""),
                 genre |-> Get(status, "genre", "")]]

\* Raw status maps: each of the three fields is absent or has one of the
\* values listed.
Optional(k, values) == { <<>> } \cup { k :> x : x \in values }

TransportStates ==
    { PyString("0"), PyString("1"), PyString("2"), PyString("3"), PyString("4"),
      PyString(""), PyInt("2"), PyInt("7"), PyNone }

TransportPositions == { <<"6","5","0","0","0">>, <<"a","b","c">> }

SourcePaths == { <<>>, <<"spotify">>, <<"inputs", "spotify">>, <<"a", "b">> }

RawStatuses ==
    { ts @@ src @@ [title |-> "Song A"] :
        ts \in Optional("transportState", TransportStates),
        src \in Optional("source", SourcePaths) }
    \cup
    { ts @@ tp @@ [title |-> "Song A", source |-> <<"inputs", "spotify">>] :
        ts \in Optional("transportState", TransportStates),
        tp \in Optional("transportPosition", TransportPositions) }
    \cup { <<>> }

\* _normalize_status() applied to the raw status the media player fetched
\* last (_last_status).
Normalize ==
    \E out \in { normalize_status(mp.last_status) } :
        /\ call' = [op |-> "normalize", raised |-> out.raised, empty |-> out.empty,
                    normalized |-> out.d]
        /\ result' = ~out.raised
        /\ reqs' = <<>>
        /\ UNCHANGED <<client, mp, lastConnect, tasks, device, steppers, driver>>

\* The refresh of a connected media player whose device is on and answers
\* GET /nowplaying with the raw status.
StatusEnvs ==
    { [power |-> Response(JsonReply([system |-> "on"])),
       status |-> Response(JsonReply(s)),
       volume |-> Response(JsonReply([volume |-> <<"5","0">>, mute |-> "0"]))] :
        s \in RawStatuses }

NormalizeNext ==
    \/ Normalize
    \/ \E handshake \in PlayerHandshakes, env \in MonitorEnvs : PlayerConnect(handshake, env)
    \/ \E env \in StatusEnvs : UpdateStatus(env)

NormalizeSpec == Init /\ [][NormalizeNext]_vars

(***************************************************************************)
(* Power, mute and transport commands of NaimClient; NaimRemote            *)
(***************************************************************************)
EP_power_system(system) == Endpoint(<<"power">>, [k |-> "system", v |-> system])
EP_mute(mute) == Endpoint(<<"levels", "room">>, [k |-> "mute", v |-> mute])
EP_cmd(cmd) == Endpoint(<<"nowplaying">>, [k |-> "cmd", v |-> cmd])

\* The commands that are one request: success is "response is not None".
OneRequest(c, method, ep, resp) ==
    [reqs |-> Wire(c, method, ep), result |-> Request(c, resp).some]

power_on(c, resp) == OneRequest(c, "PUT", EP_power_system("on"), resp)
\* Mutant: power_off() that sends the English word.
power_off_Off(c, resp) == OneRequest(c, "PUT", EP_power_system("off"), resp)

power_off(c, resp) == OneRequest(c, "PUT", EP_power_system("lona"), resp)
mute(c, resp) == OneRequest(c, "PUT", EP_mute("1"), resp)
unmute(c, resp) == OneRequest(c, "PUT", EP_mute("0"), resp)
play(c, resp) == OneRequest(c, "GET", EP_cmd("play"), resp)
\* Mutant: pause() that sends the play command.
pause_Play(c, resp) == OneRequest(c, "GET", EP_cmd("play"), resp)
pause(c, resp) == OneRequest(c, "GET", EP_cmd("pause"), resp)
stop(c, resp) == OneRequest(c, "GET", EP_cmd("stop"), resp)
next_track(c, resp) == OneRequest(c, "GET", EP_cmd("next"), resp)
previous_track(c, resp) == OneRequest(c, "GET", EP_cmd("prev"), resp)

\* set_repeat(mode): repeat_values.get(mode.upper(), "0").
W_OFF == <<"O","F","F">>
W_ONE == <<"O","N","E">>
W_ALL == <<"A","L","L">>

repeat_values(key) ==
    CASE key = W_OFF -> "0"
      [] key = W_ONE -> "1"
      [] key = W_ALL -> "2"
      [] OTHER -> "0"

EP_repeat(repeat_value) == Endpoint(<<"nowplaying">>, [k |-> "repeat", v |-> repeat_value])

\* Mutant: set_repeat() that looks the mode up as it was given.
set_repeat_NoUpper(c, mode, resp) ==
    OneRequest(c, "PUT", EP_repeat(repeat_values(mode)), resp)

set_repeat(c, mode, resp) ==
    OneRequest(c, "PUT", EP_repeat(repeat_values(Upper(mode))), resp)

\* seek() and set_balance() log a warning and return False.
seek(c, position) == [reqs |-> <<>>, result |-> FALSE]
set_balance(c, balance) == [reqs |-> <<>>, result |-> FALSE]

\* NaimRemote: the simple commands the entity is registered with.
NavigationCommands == { "UP", "DOWN", "LEFT", "RIGHT", "OK", "BACK", "PAGE_UP", "PAGE_DOWN" }

SourceCommands ==
    [SOURCE_ANA1 |-> "ana1", SOURCE_DIG1 |-> "dig1", SOURCE_DIG2 |-> "dig2",
     SOURCE_DIG3 |-> "dig3", SOURCE_HDMI |-> "hdmi", SOURCE_RADIO |-> "radio",
     SOURCE_BLUETOOTH |-> "bluetooth", SOURCE_SPOTIFY |-> "spotify",
     SOURCE_TIDAL |-> "tidal", SOURCE_QOBUZ |-> "qobuz", SOURCE_USB |-> "usb",
     SOURCE_AIRPLAY |-> "airplay", SOURCE_GCAST |-> "gcast", SOURCE_UPNP |-> "upnp",
     SOURCE_PLAYQUEUE |-> "playqueue", SOURCE_FILES |-> "files"]

BalanceCommands == [BALANCE_LEFT |-> -25, BALANCE_RIGHT |-> 25, BALANCE_CENTER |-> 0]

simple_commands ==
    { "POWER_ON", "POWER_OFF", "POWER_TOGGLE", "VOLUME_UP", "VOLUME_DOWN", "MUTE_TOGGLE",
      "MUTE", "UNMUTE", "PLAY", "PAUSE", "PLAY_PAUSE", "STOP", "NEXT", "PREVIOUS",
      "FORWARD", "REWIND" }
        \cup NavigationCommands \cup DOMAIN SourceCommands \cup DOMAIN BalanceCommands

\* The commands that ask the device something before they act.
DEFAULT_STEP == 3

\* A command that read the device (asked) and then acted on the answer.
After(asked, out) == [reqs |-> asked \o out.reqs, result |-> out.result]

\* _handle_simple_command(command): first is what _request returns for the
\* command's first request, second for the one that follows a read. Every
\* exception of the client is caught and turned into False.
handle_simple_command(c, command, first, second) ==
    CASE command = "POWER_ON" -> power_on(c, first)
      [] command = "POWER_OFF" -> power_off(c, first)
      [] command = "POWER_TOGGLE" ->
            After(Wire(c, "GET", EP_power),
                  IF get_power_state(c, first).some /\ get_power_state(c, first).on
                  THEN power_off(c, second) ELSE power_on(c, second))
      [] command \in {"VOLUME_UP", "VOLUME_DOWN"} ->
            CHOOSE r \in { [reqs |-> out.reqs, result |-> (~out.raised) /\ out.result] :
                             out \in { volume_step(c, command = "VOLUME_UP", DEFAULT_STEP,
                                                   first, second) } } : TRUE
      [] command = "MUTE_TOGGLE" ->
            After(Wire(c, "GET", EP_levels),
                  IF Truthy(Request(c, first)) /\ Get(Request(c, first).d, "mute", "0") = "1"
                  THEN unmute(c, second) ELSE mute(c, second))
      [] command = "MUTE" -> mute(c, first)
      [] command = "UNMUTE" -> unmute(c, first)
      [] command = "PLAY" -> play(c, first)
      [] command = "PAUSE" -> pause(c, first)
      [] command = "PLAY_PAUSE" ->
            After(Wire(c, "GET", EP_nowplaying),
                  IF /\ Truthy(Request(c, first))
                     /\ Get(Request(c, first).d, "transportState", PyNone) = PyString("2")
                  THEN pause(c, second) ELSE play(c, second))
      [] command = "STOP" -> stop(c, first)
      [] command \in {"NEXT", "FORWARD"} -> next_track(c, first)
      [] command \in {"PREVIOUS", "REWIND"} -> previous_track(c, first)
      [] command \in NavigationCommands -> [reqs |-> <<>>, result |-> TRUE]
      [] command \in DOMAIN SourceCommands -> set_source(c, SourceCommands[command], first)
      [] command \in DOMAIN BalanceCommands -> set_balance(c, BalanceCommands[command])
      [] OTHER -> [reqs |-> <<>>, result |-> FALSE]

\* What the device may answer a command's first request with.
FirstResponses(command) ==
    CASE command \in {"POWER_TOGGLE", "TOGGLE"} -> { Response(r) : r \in PowerReplies }
      [] command \in {"VOLUME_UP", "VOLUME_DOWN", "MUTE_TOGGLE"} ->
            { Response(r) : r \in LevelsReplies }
      [] command = "PLAY_PAUSE" -> { Response(r) : r \in NowPlayingReplies }
      [] OTHER -> CommandResponses

RemoteCommands == simple_commands \cup { "MENU" }

SeekPositions == { 0, 30 }

Balances == { -25, 0, 25 }

Seek(position) ==
    \E out \in { seek(client, position) } :
        /\ reqs' = out.reqs
        /\ result' = out.result
        /\ call' = [op |-> "seek", command |-> "", wired |-> FALSE]
        /\ UNCHANGED <<client, mp, lastConnect, tasks, device, steppers, driver>>

SetBalance(balance) ==
    \E out \in { set_balance(client, balance) } :
        /\ reqs' = out.reqs
        /\ result' = out.result
        /\ call' = [op |-> "set_balance", command |-> "", wired |-> FALSE]
        /\ UNCHANGED <<client, mp, lastConnect, tasks, device, steppers, driver>>

\* wired: the command is one the remote hands to a client method that can
\* put a request on the wire.
RemoteCommand(command, first, second) ==
    \E out \in { handle_simple_command(client, command, first, second) } :
        /\ reqs' = out.reqs
        /\ result' = out.result
        /\ call' = [op |-> "remote", command |-> command,
                    wired |-> command \in simple_commands
                                  \ (NavigationCommands \cup DOMAIN BalanceCommands)]
        /\ UNCHANGED <<client, mp, lastConnect, tasks, device, steppers, driver>>

RepeatModes ==
    { W_OFF, W_ONE, W_ALL, <<"o","f","f">>, <<"O","n","e">>, <<"a","l","l">>,
      <<"T","W","O">>, <<"a","l","l"," ">>, <<>> }

SetRepeat(mode, resp) ==
    \E out \in { set_repeat(client, mode, resp) } :
        /\ reqs' = out.reqs
        /\ result' = out.result
        /\ call' = [op |-> "set_repeat", command |-> "", wired |-> TRUE,
                    mode |-> mode, answered |-> resp.some]
        /\ UNCHANGED <<client, mp, lastConnect, tasks, device, steppers, driver>>

RemoteInputs == { l \in InputLists : Len(l) <= 1 }

RemoteInit == CommandInit(RemoteInputs)

RemoteNext ==
    \/ \E position \in SeekPositions : Seek(position)
    \/ \E balance \in Balances : SetBalance(balance)
    \/ \E mode \in RepeatModes, resp \in CommandResponses : SetRepeat(mode, resp)
    \/ \E command \in RemoteCommands :
          \E first \in FirstResponses(command), second \in CommandResponses :
              RemoteCommand(command, first, second)
    \/ Disconnect

RemoteSpec == RemoteInit /\ [][RemoteNext]_vars

(***************************************************************************)
(* NaimMediaPlayer.command_handler                                         *)
(***************************************************************************)
EP_shuffle(shuffle_value) == Endpoint(<<"nowplaying">>, [k |-> "shuffle", v |-> shuffle_value])

set_shuffle(c, enabled, resp) ==
    OneRequest(c, "PUT", EP_shuffle(IF enabled THEN "1" ELSE "0"), resp)

\* A command of the media player entity with its params (the ones its cmd_id
\* does not read keep their defaults).
Cmd(cmd_id) ==
    [cmd_id |-> cmd_id, volume |-> 0, media_position |-> 0, source |-> "",
     repeat |-> W_OFF, shuffle |-> FALSE]

\* A client call that did not raise.
Returned(m, out) == [mp |-> m, reqs |-> out.reqs, success |-> out.result, raised |-> FALSE]

\* REPEAT: the local state follows the param when it is OFF, ONE or ALL.
RepeatCommand(m, repeat_mode, out) ==
    Returned(IF out.result /\ repeat_mode \in {W_OFF, W_ONE, W_ALL}
             THEN [m EXCEPT !.attr_repeat = CASE repeat_mode = W_OFF -> "OFF"
                                              [] repeat_mode = W_ONE -> "ONE"
                                              [] OTHER -> "ALL"]
             ELSE m, out)

ShuffleCommand(m, shuffle_state, out) ==
    Returned(IF out.result THEN [m EXCEPT !.attr_shuffle = shuffle_state] ELSE m, out)

\* The branch of command_handler() for cmd: the client calls it makes, the
\* local state it sets, and whether an exception left it. first answers the
\* branch's first request, second the one that follows a read.
CommandBranch(m, c, cmd, first, second) ==
    CASE cmd.cmd_id = "ON" -> Returned(m, power_on(c, first))
      [] cmd.cmd_id = "OFF" -> Returned(m, power_off(c, first))
      [] cmd.cmd_id = "TOGGLE" ->
            Returned(m, After(Wire(c, "GET", EP_power),
                              IF get_power_state(c, first).some /\ get_power_state(c, first).on
                              THEN power_off(c, second) ELSE power_on(c, second)))
      [] cmd.cmd_id = "PLAY_PAUSE" ->
            Returned(m, After(Wire(c, "GET", EP_nowplaying),
                              IF /\ Truthy(Request(c, first))
                                 /\ Get(Request(c, first).d, "transportState", PyNone) = PyString("2")
                              THEN pause(c, second) ELSE play(c, second)))
      [] cmd.cmd_id = "STOP" -> Returned(m, stop(c, first))
      [] cmd.cmd_id = "NEXT" -> Returned(m, next_track(c, first))
      [] cmd.cmd_id = "PREVIOUS" -> Returned(m, previous_track(c, first))
      [] cmd.cmd_id = "SEEK" -> Returned(m, seek(c, cmd.media_position))
      [] cmd.cmd_id = "VOLUME" -> Returned(m, set_volume(c, cmd.volume, first))
      [] cmd.cmd_id \in {"VOLUME_UP", "VOLUME_DOWN"} ->
            CHOOSE r \in { [mp |-> m, reqs |-> out.reqs, success |-> out.result,
                            raised |-> out.raised] :
                             out \in { volume_step(c, cmd.cmd_id = "VOLUME_UP", DEFAULT_STEP,
                                                   first, second) } } : TRUE
      [] cmd.cmd_id = "MUTE_TOGGLE" ->
            Returned(m, IF m.attr_muted THEN unmute(c, first) ELSE mute(c, first))
      [] cmd.cmd_id = "MUTE" -> Returned(m, mute(c, first))
      [] cmd.cmd_id = "UNMUTE" -> Returned(m, unmute(c, first))
      [] cmd.cmd_id = "SELECT_SOURCE" -> Returned(m, set_source(c, cmd.source, first))
      [] cmd.cmd_id = "REPEAT" -> RepeatCommand(m, cmd.repeat, set_repeat(c, cmd.repeat, first))
      [] cmd.cmd_id = "SHUFFLE" ->
            ShuffleCommand(m, cmd.shuffle, set_shuffle(c, cmd.shuffle, first))

media_player_Commands ==
    { "ON", "OFF", "TOGGLE", "PLAY_PAUSE", "STOP", "NEXT", "PREVIOUS", "SEEK", "VOLUME",
      "VOLUME_UP", "VOLUME_DOWN", "MUTE_TOGGLE", "MUTE", "UNMUTE", "SELECT_SOURCE",
      "REPEAT", "SHUFFLE" }

\* command_handler(): the branch, then update_attributes() (a refresh from
\* the device, env its answers) and the status code. An unsupported cmd_id
\* returns before the refresh, and so does a branch that raised.
command_handler(m, c, cmd, first, second, env) ==
    IF cmd.cmd_id \notin media_player_Commands
    THEN [mp |-> m, reqs |-> <<>>, sent |-> 0, success |-> FALSE, status |-> "NOT_IMPLEMENTED",
          raised |-> FALSE, refreshes |-> 0]
    ELSE CHOOSE r \in
        { IF b.raised
          THEN [mp |-> b.mp, reqs |-> b.reqs, sent |-> Len(b.reqs), success |-> FALSE,
                status |-> "SERVER_ERROR", raised |-> TRUE, refreshes |-> 0]
          ELSE CHOOSE q \in
                 { [mp |-> upd.mp, reqs |-> b.reqs \o upd.reqs, sent |-> Len(b.reqs),
                    success |-> b.success,
                    status |-> IF b.success THEN "OK" ELSE "SERVER_ERROR",
                    raised |-> FALSE, refreshes |-> 1] :
                     upd \in { update_status(b.mp, c, env) } } : TRUE :
            b \in { CommandBranch(m, c, cmd, first, second) } } : TRUE

\* The commands the remote sends an entity.
EntityCommands ==
    { Cmd(id) : id \in { "ON", "OFF", "TOGGLE", "PLAY_PAUSE", "STOP", "NEXT", "PREVIOUS",
                         "VOLUME_UP", "VOLUME_DOWN", "MUTE_TOGGLE", "MUTE", "UNMUTE",
                         "PLAY" } }
        \cup { [Cmd("SEEK") EXCEPT !.media_position = 30],
               [Cmd("VOLUME") EXCEPT !.volume = 50],
               [Cmd("VOLUME") EXCEPT !.volume = 150],
               [Cmd("SELECT_SOURCE") EXCEPT !.source = "spotify"],
               [Cmd("REPEAT") EXCEPT !.repeat = W_ALL],
               [Cmd("REPEAT") EXCEPT !.repeat = W_ONE],
               [Cmd("REPEAT") EXCEPT !.repeat = <<"a","l","l">>],
               [Cmd("SHUFFLE") EXCEPT !.shuffle = TRUE] }

\* Only a command that reads before it acts sends a second request.
SecondResponses(cmd_id) ==
    IF cmd_id \in {"TOGGLE", "POWER_TOGGLE", "PLAY_PAUSE", "VOLUME_UP", "VOLUME_DOWN"}
    THEN CommandResponses ELSE { None }

\* sent: how many of reqs the command's branch sent (the rest is the refresh);
\* refreshes: how many times the handler called update_attributes().
\* muted: the device's mute flag ("1" muted) at the time of the command, which
\* the handler does not read.
Command(cmd, first, second, env, muted) ==
    \E out \in { command_handler(mp, client, cmd, first, second, env) } :
        /\ mp' = out.mp
        /\ reqs' = out.reqs
        /\ result' = out.success
        /\ call' = [op |-> "command", command |-> cmd.cmd_id, status |-> out.status,
                    sent |-> out.sent, raised |-> out.raised, refreshes |-> out.refreshes,
                    device_mute |-> muted]
        /\ UNCHANGED <<client, lastConnect, tasks, device, steppers, driver>>

PowerCommands == { "POWER_ON", "POWER_OFF", "POWER_TOGGLE" }

\* The mute flags a device can be in when a command arrives; only MUTE_TOGGLE
\* is followed through both.
DeviceMutes(cmd_id) == IF cmd_id = "MUTE_TOGGLE" THEN { "0", "1" } ELSE { "0" }

EntityNext ==
    \/ \E handshake \in PlayerHandshakes, env \in MonitorEnvs : PlayerConnect(handshake, env)
    \/ PlayerDisconnect
    \/ \E cmd \in EntityCommands, env \in MonitorEnvs :
          \E first \in FirstResponses(cmd.cmd_id), second \in SecondResponses(cmd.cmd_id) :
              \E muted \in DeviceMutes(cmd.cmd_id) : Command(cmd, first, second, env, muted)
    \/ \E command \in PowerCommands :
          \E first \in FirstResponses(command), second \in SecondResponses(command) :
              RemoteCommand(command, first, second)

EntitySpec == Init /\ [][EntityNext]_vars

(***************************************************************************)
(* The transport on its own: _request against every kind of reply          *)
(***************************************************************************)
StatusCodes == { 200, 201, 204, 302, 404, 500 }

ReplyBodies ==
    { JsonReply([ok |-> "1"]), JsonReply(<<>>), JsonValueReply("list", <<"x">>),
      InvalidJsonReply, NullJsonReply,
      TextReply(PlainText), TextReply(PlainNaimText), TextReply(RedirectPage) }

TransportReplies ==
    { Unreachable } \cup { WithStatus(r, code) : r \in ReplyBodies, code \in StatusCodes }

\* What the device sent, for the record of a call: whether the body is valid
\* JSON sent as application/json, and whether it is the redirect page.
Sent(reply) ==
    [reach |-> reply.reach, status |-> reply.status,
     valid_json |-> reply.json /\ reply.type # "invalid",
     redirect_page |-> (~reply.json) /\ reply.text = RedirectPage]

\* One _request (get_status(): GET /nowplaying); result: it returned a value.
DoRequest(reply) ==
    \E resp \in { Response(reply) } :
        /\ reqs' = Wire(client, "GET", EP_nowplaying)
        /\ result' = Request(client, resp).some
        /\ call' = [op |-> "request", sent |-> Sent(reply)]
        /\ UNCHANGED <<client, mp, lastConnect, tasks, device, steppers, driver>>

PowerOn(reply) ==
    \E out \in { power_on(client, Response(reply)) } :
        /\ reqs' = out.reqs
        /\ result' = out.result
        /\ call' = [op |-> "power_on", sent |-> Sent(reply)]
        /\ UNCHANGED <<client, mp, lastConnect, tasks, device, steppers, driver>>

TransportNext ==
    \/ \E reply \in TransportReplies : DoRequest(reply)
    \/ \E reply \in TransportReplies : PowerOn(reply)
    \/ Disconnect

TransportSpec == RemoteInit /\ [][TransportNext]_vars

(***************************************************************************)
(* volume_up() calls that interleave on one device                         *)
(***************************************************************************)
\* str(n) for n >= 0, as the device sends its volume.
RECURSIVE DigitsOf(_)
DigitsOf(n) ==
    IF n < 10 THEN <<Digits[n + 1]>> ELSE Append(DigitsOf(n \div 10), Digits[(n % 10) + 1])

\* What the device answers GET /levels/room with.
LevelsOf(dev) == Response(JsonReply([volume |-> DigitsOf(dev.volume), mute |-> "0"]))

\* volume_up() up to its await of set_volume(): the volume it read.
ReadVolume(volume_info) ==
    IF Truthy(volume_info) /\ "volume" \in DOMAIN volume_info.d /\ IsInt(volume_info.d["volume"])
    THEN [some |-> TRUE, current_volume |-> IntOf(volume_info.d["volume"])]
    ELSE [some |-> FALSE, current_volume |-> 0]

\* Mutant: a volume_up() that reads the volume again when it writes.
BaseOfWrite_Fresh(stepper, dev) == dev.volume

\* The volume the write is computed from: the one read before the await.
BaseOfWrite(stepper, dev) == stepper.current_volume

StepVolumes == { 0, 50, 96, 98, 100 }

ExternalVolumes == { 20, 70 }

StepInit ==
    /\ client \in { c \in ClientsAfterConnect({ <<>> }) : c.session }
    /\ mp = NewMediaPlayer
    /\ call = [op |-> "init"]
    /\ reqs = <<>>
    /\ result = FALSE
    /\ lastConnect = [done |-> client.session, ok |-> client.is_connected,
                      marker |-> FALSE, revalidated |-> FALSE]
    /\ tasks = NewTasks
    /\ device \in { NewDevice(v) : v \in StepVolumes }
    /\ steppers = NewSteppers
    /\ driver = NewDriver(<<>>)

\* volume_up(): get_volume() returned.
StepRead(i) ==
    /\ steppers[i].pc = "idle"
    /\ \E read \in { ReadVolume(Request(client, LevelsOf(device))) } :
          /\ read.some
          /\ steppers' = [steppers EXCEPT ![i] = [pc |-> "read",
                                                  current_volume |-> read.current_volume,
                                                  writes_seen |-> device.writes]]
    /\ reqs' = Wire(client, "GET", EP_levels)
    /\ result' = FALSE
    /\ call' = [op |-> "step_read", by |-> i]
    /\ UNCHANGED <<client, mp, lastConnect, tasks, device, driver>>

\* volume_up(): set_volume(min(100, current_volume + step)) reached the device.
StepWrite(i) ==
    /\ steppers[i].pc = "read"
    /\ \E new_volume \in { volume_up_target(BaseOfWrite(steppers[i], device), DEFAULT_STEP) } :
       \E out \in { set_volume(client, new_volume, Some([ok |-> "1"])) } :
          /\ out.result
          /\ device' = [device EXCEPT !.volume = new_volume, !.writes = @ + 1, !.last = i]
          /\ reqs' = out.reqs
          /\ result' = out.result
    /\ steppers' = [steppers EXCEPT ![i].pc = "done"]
    /\ call' = [op |-> "step_write", by |-> i]
    /\ UNCHANGED <<client, mp, lastConnect, tasks, driver>>

\* Another party (the device's own controls, another app) sets the volume.
ExternalChange(volume) ==
    /\ device.external < MaxExternal
    /\ device' = [device EXCEPT !.volume = volume, !.external = @ + 1, !.last = 0]
    /\ reqs' = <<>>
    /\ result' = FALSE
    /\ call' = [op |-> "external", by |-> 0]
    /\ UNCHANGED <<client, mp, lastConnect, tasks, steppers, driver>>

StepNext ==
    \/ \E i \in StepperIds : StepRead(i)
    \/ \E i \in StepperIds : StepWrite(i)
    \/ \E volume \in ExternalVolumes : ExternalChange(volume)

StepSpec == StepInit /\ [][StepNext]_vars

(***************************************************************************)
(* Events the device pushes                                                *)
(***************************************************************************)
\* The callbacks registered with add_event_callback(): the media player adds
\* its _handle_device_event when it is constructed.
EventCallbacks == <<"_handle_device_event">>

EventTypes == { "playback_state", "volume_change", "track_change", "source_change" }

\* The callbacks the client invokes for an event on the streaming channel.
\* Only a running _ws_task could read the channel; nothing in the client
\* opens _websocket, starts _ws_task or iterates _event_callbacks.
Delivered(c, type) == IF c.ws_task /\ c.websocket THEN EventCallbacks ELSE <<>>

\* The device pushes an event.
DevicePush(type) ==
    \E invoked \in { Delivered(client, type) } :
        /\ call' = [op |-> "push", failed |-> "none", type |-> type,
                    invoked |-> Len(invoked)]
        /\ reqs' = <<>>
        /\ result' = FALSE
        /\ UNCHANGED <<client, mp, lastConnect, tasks, device, steppers, driver>>

EventNext ==
    \/ \E handshake \in PlayerHandshakes, env \in MonitorEnvs : PlayerConnect(handshake, env)
    \/ PlayerDisconnect
    \/ \E env \in StatusEnvs : UpdateStatus(env)
    \/ \E type \in EventTypes : DevicePush(type)

EventSpec == Init /\ [][EventNext]_vars

(***************************************************************************)
(* Prefix negotiation (C3, C4, C5)                                         *)
(***************************************************************************)

\* C3: after a connect() whose root response carried the prefix marker and whose
\* re-validation succeeded, every request sent afterwards has a URL under /naim.
C3_RequestsUnderPrefix ==
    (/\ call.op = "get_status"
     /\ lastConnect.ok /\ lastConnect.marker /\ lastConnect.revalidated)
        => \A i \in 1..Len(reqs) : UnderNaimPrefix(reqs[i].url)

\* C4: after a successful connect() whose root response lacked the marker the
\* client's api_base is base_url, whatever earlier connects detected.
C4_PlainBaseWithoutMarker ==
    (lastConnect.done /\ lastConnect.ok /\ ~lastConnect.marker)
        => client.api_base = base_url

\* C5: when the marker was seen and none of the three test requests succeeded,
\* connect() has put api_base back to base_url before it requests /system and
\* /inputs: the three tests went out under the /naim base, the two handshake
\* requests after them under base_url, and api_base ends as base_url.
C5_RevertBeforeHandshake ==
    (call.op = "connect" /\ call.marker /\ ~call.revalidated)
        => /\ client.api_base = base_url
           /\ Len(reqs) \in {5, 6}
           /\ \A i \in 2..4 : reqs[i].endpoint = test_endpoints[i - 1] /\ reqs[i].base = NaimBase
           /\ reqs[5].endpoint = EP_system /\ reqs[5].base = base_url
           /\ Len(reqs) = 6 => reqs[6].endpoint = EP_inputs /\ reqs[6].base = base_url

C5_Witness ==
    /\ call.op = "connect" /\ call.marker /\ ~call.revalidated
    /\ result /\ client.is_connected /\ Len(reqs) = 6

(***************************************************************************)
(* Result of connect() (C11)                                               *)
(***************************************************************************)

\* C11: connect() returns success exactly when the root probe yielded a
\* (non-empty) response, whatever /system and /inputs answered; and after a
\* successful connect() whose /inputs answer had no input list the cached list
\* is empty, so that get_sources() gives the default sources.
C11_ConnectIffRootAnswers ==
    (call.op = "connect")
        => /\ result = call.root_data
           /\ (result /\ ~call.input_list)
                => client.available_inputs = <<>> /\ get_sources(client) = DefaultSources

(***************************************************************************)
(* disconnect() (C12)                                                      *)
(***************************************************************************)

\* C12: after disconnect() the client is not connected and has no session, no
\* websocket and no websocket task, also when it never connected or was
\* disconnected already; one more disconnect() would leave it as it is; and a
\* request made while there is no session sends nothing and fails.
C12_DisconnectIdempotent ==
    /\ (call.op = "disconnect")
          => /\ ~client.is_connected /\ ~client.session
             /\ ~client.websocket /\ ~client.ws_task
             /\ DisconnectOutcome(client) = client
             /\ reqs = <<>>
    /\ (call.op = "get_status" /\ ~client.session)
          => reqs = <<>> /\ result = FALSE

\* A second disconnect() in a row, on a client that had connected.
C12_Witness ==
    /\ call.op = "disconnect" /\ call.after = "disconnect" /\ ~call.had_session
    /\ lastConnect.ok /\ ~client.session /\ ~client.is_connected

(***************************************************************************)
(* Polling supervisor (C13, C14, C15)                                      *)
(***************************************************************************)
StopOps == {"unsubscribe", "remote_disconnect", "mp_disconnect"}

\* C13: monitoring goes from off to on only in a subscription of a connected
\* entity, and from on to off only in an unsubscription, a remote disconnect
\* or the entity's disconnect, each of which leaves it off; a subscription of
\* an entity that is not connected creates no task; and a polling task sends a
\* request or completes a refresh only while monitoring is on.
C13_SupervisorTransitions ==
    [][/\ (~mp.monitoring /\ mp'.monitoring) => (call'.op = "subscribe" /\ mp.connected)
       /\ (mp.monitoring /\ ~mp'.monitoring) => call'.op \in StopOps
       /\ (call'.op \in StopOps) => ~mp'.monitoring
       /\ (call'.op = "subscribe" /\ ~mp.connected) => (tasks' = tasks /\ ~mp'.monitoring)
       /\ (call'.op = "poll" /\ (reqs' # <<>> \/ call'.refreshed)) => mp.monitoring]_vars

\* An unsubscription has just stopped the task a subscription had started.
C13_Witness ==
    /\ call.op = "unsubscribe" /\ mp.connected /\ ~mp.monitoring
    /\ call.task # 0 /\ tasks[call.task].cancelled

\* C14: when a refresh run by the polling loop has failed (its power,
\* now-playing or volume request got no answer), the loop's next wait is the
\* 30 s backoff.
C14_BackoffAfterFailedRefresh ==
    (call.op = "poll" /\ call.refreshed /\ call.failed # "none")
        => /\ tasks[call.task].pc = "backoff"
           /\ tasks[call.task].wait = BACKOFF_INTERVAL

\* C15: an unsubscription, remote disconnect or entity disconnect cancels the
\* live polling task where it is suspended, and the only step a cancelled task
\* takes is its termination from that point: it sends no request and changes
\* no attribute.
C15_CancelTerminates ==
    [][\A t \in TaskIds :
          /\ (call'.op \in StopOps /\ tasks[t].pc # "none" /\ ~tasks[t].cancelled)
                => (tasks'[t].cancelled /\ tasks'[t].pc = tasks[t].pc)
          /\ (tasks[t].cancelled /\ tasks'[t] # tasks[t])
                => /\ tasks'[t].pc = "none"
                   /\ call'.op = "cancelled" /\ call'.task = t /\ call'.at = tasks[t].pc
                   /\ reqs' = <<>> /\ mp' = mp]_vars

\* A task cancelled during an in-flight refresh has terminated.
C15_Witness ==
    /\ call.op = "cancelled" /\ call.at \in {"power", "nowplaying", "volume"}
    /\ tasks[call.task].pc = "none"

(***************************************************************************)
(* Volume commands (C6, C7)                                                *)
(***************************************************************************)
IsVolumePut(r, volume) ==
    /\ r.method = "PUT"
    /\ r.url.path = <<"levels", "room">>
    /\ r.url.query = [k |-> "volume", v |-> ToString(volume)]

\* C6: set_volume(v) on a connected client returns failure and sends nothing
\* for v < 0 or v > 100; for v in 0..100 it sends exactly one PUT /levels/room
\* with volume=v and returns success iff that request got a response.
C6_SetVolume ==
    (call.op = "set_volume" /\ client.is_connected)
        => IF call.volume < 0 \/ call.volume > 100
           THEN reqs = <<>> /\ result = FALSE /\ ~call.raised
           ELSE /\ Len(reqs) = 1 /\ IsVolumePut(reqs[1], call.volume)
                /\ result = call.resp.some
                /\ ~call.raised

C6_Witness ==
    /\ call.op = "set_volume" /\ client.is_connected
    /\ call.volume = 100 /\ Len(reqs) = 1 /\ result

Clamp(x) == Max(0, Min(100, x))

ReportedVolumeInRange(volume_info) ==
    /\ Truthy(volume_info) /\ "volume" \in DOMAIN volume_info.d
    /\ IsInt(volume_info.d["volume"])
    /\ IntOf(volume_info.d["volume"]) \in 0..100

C16_CommandsNeverRaise ==
    (call.op \in {"set_volume", "volume_up", "volume_down"})
        => ~call.raised /\ result \in BOOLEAN

(***************************************************************************)
(* Commands without a wire equivalent (C17)                                *)
(***************************************************************************)
\* C17: a command that has no wire equivalent never reports success: seek,
\* set_balance and every command of the remote that is not handed to a
\* request-sending client method (the navigation commands UP, DOWN, LEFT,
\* RIGHT, OK, BACK, PAGE_UP, PAGE_DOWN among them) send nothing and fail.
C17_UnsupportedNeverSucceeds ==
    (call.op \in {"seek", "set_balance", "remote"} /\ ~call.wired)
        => reqs = <<>> /\ ~result

(***************************************************************************)
(* Repeat mode on the wire (C21)                                           *)
(***************************************************************************)
IsRepeatPut(r, repeat_value) ==
    /\ r.method = "PUT"
    /\ r.url.path = <<"nowplaying">>
    /\ r.url.query = [k |-> "repeat", v |-> repeat_value]

\* The repeat value the claim gives a mode: off, one, all in any letter case,
\* and off for every other string.
RepeatOfMode(mode) ==
    IF Lower(mode) = <<"o","n","e">> THEN "1"
    ELSE IF Lower(mode) = <<"a","l","l">> THEN "2"
    ELSE "0"

\* C21: on a client with a session, set_repeat(mode) sends exactly one request,
\* PUT /nowplaying with repeat=0 for off, repeat=1 for one, repeat=2 for all
\* (in any letter case) and repeat=0 for every other mode string.
C21_SetRepeatValue ==
    (call.op = "set_repeat" /\ client.session)
        => /\ Len(reqs) = 1
           /\ IsRepeatPut(reqs[1], RepeatOfMode(call.mode))
           /\ result = call.answered

C21_Witness ==
    /\ call.op = "set_repeat" /\ client.session
    /\ call.mode = <<"a","l","l">>
    /\ Len(reqs) = 1 /\ IsRepeatPut(reqs[1], "2") /\ result

(***************************************************************************)
(* Power on the wire (C22)                                                 *)
(***************************************************************************)
IsPowerPut(r, system) ==
    /\ r.method = "PUT"
    /\ r.url.path = <<"power">>
    /\ r.url.query = [k |-> "system", v |-> system]
    /\ r.json_data = "None"

\* The power requests a command's own branch sent, in order.
PowerPuts ==
    SelectSeq(SubSeq(reqs, 1, IF call.op = "command" THEN call.sent ELSE Len(reqs)),
              LAMBDA r : r.method = "PUT")

PowerOffCalls == call.op \in {"command", "remote"} /\ call.command \in {"OFF", "POWER_OFF"}
PowerOnCalls == call.op \in {"command", "remote"} /\ call.command \in {"ON", "POWER_ON"}
PowerToggleCalls == call.op \in {"command", "remote"} /\ call.command \in {"TOGGLE", "POWER_TOGGLE"}

\* C22: with a session, the media player's OFF and the remote's POWER_OFF send
\* PUT /power with system=lona, ON and POWER_ON send system=on, and a toggle
\* sends one of the two after its GET /power; no request to /power carries
\* another value (the word "off") or a JSON body.
C22_PowerTokens ==
    client.session =>
        /\ PowerOffCalls => PowerPuts # <<>> /\ IsPowerPut(PowerPuts[1], "lona")
        /\ PowerOnCalls => PowerPuts # <<>> /\ IsPowerPut(PowerPuts[1], "on")
        /\ PowerToggleCalls =>
              /\ Len(PowerPuts) = 1
              /\ IsPowerPut(PowerPuts[1], "lona") \/ IsPowerPut(PowerPuts[1], "on")
        /\ \A i \in 1..Len(reqs) :
              (reqs[i].url.path = <<"power">> /\ reqs[i].method = "PUT")
                  => IsPowerPut(reqs[i], "lona") \/ IsPowerPut(reqs[i], "on")

C22_Witness ==
    /\ client.session /\ call.op = "command" /\ call.command = "TOGGLE"
    /\ call.status = "OK"
    /\ Len(PowerPuts) = 1 /\ IsPowerPut(PowerPuts[1], "lona")

(***************************************************************************)
(* Success and failure of the transport (C23, C24)                         *)
(***************************************************************************)
Is2xx(code) == 200 <= code /\ code <= 299

TransportCall == call.op \in {"request", "power_on"} /\ client.session

\* C23: the transport reports a request as failed exactly when the device is
\* unreachable or the HTTP status is not 2xx: every 2xx reply with a valid
\* JSON body is a success and every non-2xx reply is a failure.
C23_FailsIffNot2xx ==
    TransportCall =>
        /\ (call.sent.reach /\ Is2xx(call.sent.status) /\ call.sent.valid_json) => result
        /\ (~call.sent.reach \/ ~Is2xx(call.sent.status)) => ~result

\* C24: a 2xx reply whose body is not valid JSON and is not the recognised
\* redirect page makes the request fail, and the command that issued it
\* (power_on) returns failure.
C24_MalformedFails ==
    (TransportCall /\ call.sent.reach /\ Is2xx(call.sent.status)
        /\ ~call.sent.valid_json /\ ~call.sent.redirect_page)
        => ~result

(***************************************************************************)
(* Source selection (C8, C9, C10)                                          *)
(***************************************************************************)
IsSelect(r, source) ==
    /\ r.method = "GET"
    /\ r.url.path = <<"inputs", source>>
    /\ r.url.query = [k |-> "cmd", v |-> "select"]

\* set_source put exactly one select request for the source on the wire (none
\* when the client has no session) and returned that request's outcome.
SelectSent ==
    /\ client.session => Len(reqs) = 1 /\ IsSelect(reqs[1], call.source)
    /\ ~client.session => reqs = <<>>
    /\ result = (client.session /\ call.resp.some)

SelectRefused == reqs = <<>> /\ result = FALSE

C9_SetSourceUnknown ==
    (call.op = "set_source" /\ ~HasMatch(client.available_inputs, call.source))
        => SelectSent

C9_Witness ==
    /\ call.op = "set_source" /\ call.source = "tidal"
    /\ client.is_connected /\ client.available_inputs = <<>>
    /\ Len(reqs) = 1 /\ IsSelect(reqs[1], "tidal") /\ result

\* C10: set_source(id) for an id whose cached descriptor is marked disabled
\* sends no select command and returns failure, whatever its selectable flag.
C10_DisabledRefused ==
    (/\ call.op = "set_source"
     /\ HasMatch(client.available_inputs, call.source)
     /\ FirstMatch(client.available_inputs, call.source).disabled = "1")
        => SelectRefused

(***************************************************************************)
(* Status normalizer (C18, C19, C20)                                       *)
(***************************************************************************)
PlayStateOfText(code) ==
    CASE code = "0" -> "stopped"
      [] code = "1" -> "paused"
      [] code = "2" -> "playing"
      [] code = "3" -> "buffering"
      [] OTHER -> "unknown"

Normalized == call.op = "normalize" /\ ~call.raised /\ ~call.empty

\* A refresh that read the now-playing status and parsed all of it.
RefreshedFromStatus ==
    /\ call.op = "update_status" /\ mp.connected /\ Len(reqs) = 3
    /\ ("transportPosition" \in DOMAIN mp.last_status
            => IsInt(mp.last_status["transportPosition"]))

C19_NormalizeNeverRaises ==
    (call.op = "normalize")
        => /\ ~call.raised
           /\ ~call.empty
                => call.normalized.position =
                      IF /\ "transportPosition" \in DOMAIN mp.last_status
                         /\ IsInt(mp.last_status["transportPosition"])
                      THEN IntOf(mp.last_status["transportPosition"])
                      ELSE 0

\* C20: the normalizer reduces "inputs/<id>" to <id> and returns every other
\* source string unchanged, and its source id is the one update_status
\* derives from the same raw status.
C20_SourcePassThrough ==
    Normalized
        => /\ call.normalized.source =
                IF /\ Len(Get(mp.last_status, "source", <<>>)) = 2
                   /\ Get(mp.last_status, "source", <<>>)[1] = "inputs"
                THEN <<Get(mp.last_status, "source", <<>>)[2]>>
                ELSE Get(mp.last_status, "source", <<>>)
           /\ call.normalized.source = SourceOfUssi(Get(mp.last_status, "source", <<>>))

(***************************************************************************)
(* The canonical status across a disconnect (C25)                          *)
(***************************************************************************)
StatusAttributes(m) ==
    <<m.attr_volume, m.attr_muted, m.attr_media_title, m.attr_media_artist,
      m.attr_media_album, m.attr_media_image_url, m.attr_media_position, m.attr_source,
      m.attr_repeat, m.attr_shuffle>>

\* C25: after NaimMediaPlayer.disconnect() the status attributes (volume,
\* muted, media fields, source, repeat, shuffle, last raw status) have their
\* construction-time values; nothing fetched in the session stays observable.
C25_StatusDiscardedOnDisconnect ==
    call.op = "mp_disconnect"
        => /\ StatusAttributes(mp) = StatusAttributes(NewMediaPlayer)
           /\ DOMAIN mp.last_status = {}

(***************************************************************************)
(* Repeat mode and volume of the canonical status (C26, C27)               *)
(***************************************************************************)
\* The repeat mode of a device's repeat setting.
RepeatModeOf(repeat) ==
    CASE repeat = "1" -> "ONE"
      [] repeat = "2" -> "ALL"
      [] OTHER -> "OFF"

\* A refresh that got all three answers and parsed them.
RefreshSucceeded ==
    /\ call.op \in {"update_status", "mp_connect"}
    /\ call.failed = "none"
    /\ Len(reqs) >= 3 /\ reqs[Len(reqs)].url.path = <<"levels", "room">>
    /\ mp.attr_state # "UNAVAILABLE"

\* C26: after a successful status refresh the canonical repeat mode is the
\* device's repeat setting: "0" gives off, "1" gives one, "2" gives all.
C26_RepeatFollowsDevice ==
    (RefreshSucceeded /\ "repeat" \in DOMAIN mp.last_status)
        => mp.attr_repeat = RepeatModeOf(mp.last_status.repeat)

\* C27: in every reachable state the canonical volume of the media player is
\* an integer in 0..100, whatever volume string the device returns.
C27_VolumeInRange == mp.attr_volume \in 0..100

(***************************************************************************)
(* Interleaved volume steps (C28)                                          *)
(***************************************************************************)
AllStepped == \A i \in StepperIds : steppers[i].pc = "done"

ReadsBeforeWrites == \A i \in StepperIds : steppers[i].writes_seen = 0

\* C28: volume stepping is a read-modify-write without a lock. When all the
\* interleaved volume_up(step) calls read before any of them writes, the
\* device ends at v + step (clamped to 100), not at v + 2*step: all updates
\* but one are lost. In every interleaving, external changes included, the
\* device holds what the last writer computed from the volume it had read.
C28_LastWriterWins ==
    /\ (AllStepped /\ ReadsBeforeWrites /\ device.external = 0)
          => device.volume = Min(100, device.initial + DEFAULT_STEP)
    /\ \A i \in StepperIds :
          device.last = i
              => device.volume = Min(100, steppers[i].current_volume + DEFAULT_STEP)

C28_Witness ==
    /\ AllStepped /\ ReadsBeforeWrites /\ device.external = 0
    /\ device.initial = 50 /\ device.volume = 53
    /\ device.writes = MaxSteppers

(***************************************************************************)
(* The event bridge (C29)                                                  *)
(***************************************************************************)
\* C29: when the device pushes a power, volume, track or source event on the
\* streaming channel of a connected client, every callback registered with
\* add_event_callback is invoked with it; the push does not disturb the
\* entity's connection.
C29_PushedEventsReachCallbacks ==
    (call.op = "push" /\ client.is_connected)
        => call.invoked = Len(EventCallbacks) /\ mp.connected

(***************************************************************************)
(* The source list (C30)                                                   *)
(***************************************************************************)
\* The cached entries that are selectable, not disabled and named inputs/<id>.
Offered(inputs) ==
    SelectSeq(inputs, LAMBDA d : /\ d.selectable = "1" /\ d.disabled # "1"
                                 /\ Len(d.ussi) = 2 /\ d.ussi[1] = "inputs")

\* C30: get_sources never returns an empty list: without a cached entry that
\* is selectable, not disabled and of the form inputs/<id> it returns the
\* default set, otherwise exactly the ids of those entries, in list order.
C30_SourcesNeverEmpty ==
    call.op = "get_sources" =>
        /\ call.sources # <<>>
        /\ IF Offered(client.available_inputs) = <<>>
           THEN call.sources = DefaultSources
           ELSE call.sources = [i \in 1..Len(Offered(client.available_inputs)) |->
                                    Offered(client.available_inputs)[i].ussi[2]]

C30_Witness ==
    /\ call.op = "get_sources"
    /\ Len(client.available_inputs) = 2
    /\ call.sources = <<"radio">>

(***************************************************************************)
(* Failed status refresh (C1, C2)                                          *)
(***************************************************************************)
CanonicalStatus(m) ==
    <<m.attr_state, m.attr_volume, m.attr_muted, m.attr_media_title, m.attr_media_artist,
      m.attr_media_album, m.attr_media_image_url, m.attr_media_position, m.attr_source,
      m.attr_repeat, m.attr_shuffle>>

\* C1: a status refresh in which the power, now-playing or volume request
\* fails leaves every canonical status attribute as it was before the refresh.
C1_FailedRefreshKeepsStatus ==
    [][(call'.op = "update_status" /\ call'.failed # "none")
          => CanonicalStatus(mp') = CanonicalStatus(mp)]_vars

\* C2: after a status refresh in which the power, the now-playing or the
\* volume request failed, the entity's state is UNAVAILABLE.
C2_FailedRefreshUnavailable ==
    (call.op = "update_status" /\ call.failed \in {"power", "nowplaying", "volume"})
        => mp.attr_state = "UNAVAILABLE"

(***************************************************************************)
(* connect() on a client that was connected before (C37)                   *)
(***************************************************************************)

\* C37: after connect() returns failure the client reports is_connected ==
\* false, whatever was called before, a client that had connected successfully
\* earlier included.
C37_FailedConnectNotConnected ==
    (call.op = "connect" /\ ~result) => ~client.is_connected

(***************************************************************************)
(* get_sources() against set_source() (C40)                                *)
(***************************************************************************)
\* The source ids get_sources() takes from the cached input list (the defaults
\* it substitutes for an empty selection are not device-provided).
DeviceSourceIds(inputs) ==
    { Offered(inputs)[i].ussi[2] : i \in 1..Len(Offered(inputs)) }

\* C40: set_source(id) for an id that get_sources() returns from the cached,
\* device-provided input list sends the select request; it is never rejected
\* as not selectable.
C40_OfferedSourceIsSelected ==
    (call.op = "set_source" /\ call.source \in DeviceSourceIds(client.available_inputs))
        => /\ Len(reqs) = 1
           /\ reqs[1].endpoint = EP_select(call.source)

(***************************************************************************)
(* The media player's command handler as a whole (C38)                     *)
(***************************************************************************)

\* C38: for a recognised command the handler runs one status refresh after the
\* command, whether it succeeded or not, and returns OK exactly when the client
\* method reported success, SERVER_ERROR otherwise and when an exception was
\* raised; for an unrecognised command it returns NOT_IMPLEMENTED and sends no
\* request and runs no refresh.
C38_HandlerRefreshesAndReports ==
    (call.op = "command")
        => IF call.command \in media_player_Commands
           THEN /\ call.refreshes = 1
                /\ mp.connected => Len(reqs) > call.sent
                /\ call.status = (IF result THEN "OK" ELSE "SERVER_ERROR")
                /\ call.raised => call.status = "SERVER_ERROR"
           ELSE /\ call.status = "NOT_IMPLEMENTED"
                /\ reqs = <<>>
                /\ call.refreshes = 0

(***************************************************************************)
(* MUTE_TOGGLE on the two entities (C39)                                   *)
(***************************************************************************)
\* What a device whose mute flag is `muted` answers GET /levels/room with.
LevelsWithMute(muted) == Response(JsonReply([volume |-> <<"5","0">>, mute |-> muted]))

\* The requests the remote's MUTE_TOGGLE sends after reading the levels (a
\* client without a session sends none).
RemoteMuteToggle(c, muted) ==
    LET sent == handle_simple_command(c, "MUTE_TOGGLE", LevelsWithMute(muted), None).reqs
    IN  IF sent = <<>> THEN <<>> ELSE Tail(sent)

\* C39: MUTE_TOGGLE on the media player inverts the device's mute state: it
\* sends the request the remote's MUTE_TOGGLE sends for the same device,
\* which is unmute (mute=0) exactly when the device is muted, also when the
\* media player's cached flag differs from the device.
C39_MuteToggleInvertsDevice ==
    (call.op = "command" /\ call.command = "MUTE_TOGGLE")
        => /\ SubSeq(reqs, 1, call.sent) = RemoteMuteToggle(client, call.device_mute)
           /\ client.session
                => /\ call.sent = 1
                   /\ reqs[1].endpoint = EP_mute(IF call.device_mute = "1" THEN "0" ELSE "1")

(***************************************************************************)
(* A media player against a device that follows the wire contract (C31)    *)
(***************************************************************************)
\* In this specification `device` is the unit behind the client: reachable or
\* not, system "on" or "lona" (standby), its transport state, volume and mute.
ContractDevices ==
    [reach : BOOLEAN, system : { "on", "lona" }, transportState : { "1", "2" },
     volume : { 50, 100 }, mute : { "0" }]

PlayingAtFifty ==
    [reach |-> TRUE, system |-> "on", transportState |-> "2", volume |-> 50, mute |-> "0"]

\* What the unit answers GET /power, /nowplaying and /levels/room with.
DeviceAnswers(dev) ==
    IF ~dev.reach
    THEN [power |-> None, status |-> None, volume |-> None]
    ELSE [power |-> Response(JsonReply([system |-> dev.system])),
          status |-> Response(JsonReply([transportState |-> PyString(dev.transportState),
                                         transportPosition |-> <<"0">>, title |-> "Song A",
                                         source |-> <<"inputs", "spotify">>])),
          volume |-> Response(JsonReply([volume |-> DigitsOf(dev.volume), mute |-> dev.mute]))]

DeviceHandshake(dev) ==
    IF ~dev.reach
    THEN [root |-> None, tests |-> <<>>, system |-> None, inputs |-> None]
    ELSE [root |-> Response(JsonReply([version |-> "1"])), tests |-> <<>>,
          system |-> Response(JsonReply([model |-> "Uniti"])),
          inputs |-> Response(JsonReply([children |-> PlayerInputs]))]

Ack(dev) == IF dev.reach THEN Response(JsonReply([ok |-> "1"])) ELSE None

\* The answer to the first request of a command: a read for the commands that
\* read before they act.
DeviceFirst(cmd_id, dev) ==
    CASE cmd_id = "TOGGLE" -> DeviceAnswers(dev).power
      [] cmd_id = "PLAY_PAUSE" -> DeviceAnswers(dev).status
      [] cmd_id \in {"VOLUME_UP", "VOLUME_DOWN"} -> DeviceAnswers(dev).volume
      [] OTHER -> Ack(dev)

\* The unit after one request, as the wire contract has it.
Obey(dev, req) ==
    IF ~dev.reach THEN dev
    ELSE CASE req.endpoint = EP_cmd("pause") -> [dev EXCEPT !.transportState = "1"]
           [] req.endpoint = EP_cmd("play") -> [dev EXCEPT !.transportState = "2"]
           [] req.endpoint = EP_cmd("stop") -> [dev EXCEPT !.transportState = "0"]
           [] req.endpoint = EP_mute("1") -> [dev EXCEPT !.mute = "1"]
           [] req.endpoint = EP_mute("0") -> [dev EXCEPT !.mute = "0"]
           [] req.endpoint = EP_power_system("on") -> [dev EXCEPT !.system = "on"]
           [] req.endpoint = EP_power_system("lona") -> [dev EXCEPT !.system = "lona"]
           [] \E v \in 0..100 : req.endpoint = EP_set_volume(v) ->
                 [dev EXCEPT !.volume = CHOOSE v \in 0..100 : req.endpoint = EP_set_volume(v)]
           [] OTHER -> dev

RECURSIVE ObeyAll(_, _)
ObeyAll(dev, sent) == IF sent = <<>> THEN dev ELSE ObeyAll(Obey(dev, Head(sent)), Tail(sent))

ContractCommands ==
    { Cmd(id) : id \in { "OFF", "PLAY_PAUSE" } }
        \cup { [Cmd("VOLUME") EXCEPT !.volume = 50],
               [Cmd("VOLUME") EXCEPT !.volume = 100],
               [Cmd("VOLUME") EXCEPT !.volume = 150] }

ContractConnect ==
    \E handshake \in { DeviceHandshake(device) } :
        PlayerConnect(handshake, DeviceAnswers(device))

\* command_handler() against the unit: the branch's requests reach the unit
\* before the refresh reads it. fetched is the transport state the unit had.
ContractCommand(cmd) ==
    \E first \in { DeviceFirst(cmd.cmd_id, device) } :
    \E after \in { ObeyAll(device, CommandBranch(mp, client, cmd, first, Ack(device)).reqs) } :
    \E out \in { command_handler(mp, client, cmd, first, Ack(device), DeviceAnswers(after)) } :
        /\ device' = after
        /\ mp' = out.mp
        /\ reqs' = out.reqs
        /\ result' = out.success
        /\ call' = [op |-> "command", command |-> cmd.cmd_id, status |-> out.status,
                    sent |-> out.sent, raised |-> out.raised, refreshes |-> out.refreshes,
                    device_mute |-> device.mute, asked |-> cmd.volume,
                    fetched |-> IF device.reach THEN device.transportState ELSE ""]
        /\ UNCHANGED <<client, lastConnect, tasks, steppers, driver>>

\* The unit changes on its own: front panel, app, network.
DeviceChange(dev) ==
    /\ dev # device
    /\ device' = dev
    /\ call' = [op |-> "device"]
    /\ UNCHANGED <<client, mp, reqs, result, lastConnect, tasks, steppers, driver>>

ContractInit ==
    /\ client = NewClient
    /\ mp = NewMediaPlayer
    /\ call = [op |-> "init"]
    /\ reqs = <<>>
    /\ result = FALSE
    /\ lastConnect = [done |-> FALSE, ok |-> FALSE, marker |-> FALSE, revalidated |-> FALSE]
    /\ tasks = NewTasks
    /\ device = PlayingAtFifty
    /\ steppers = NewSteppers
    /\ driver = NewDriver(<<>>)

ContractNext ==
    \/ ContractConnect
    \/ PlayerDisconnect
    \/ \E cmd \in ContractCommands : ContractCommand(cmd)
    \/ \E dev \in ContractDevices : DeviceChange(dev)

ContractSpec == ContractInit /\ [][ContractNext]_vars

IsOnAndReachable(dev) == dev.reach /\ dev.system = "on"

\* C31: against a device that follows the wire contract: a media player that
\* connected to a device that is on, playing and at volume 50 shows PLAYING
\* and volume 50; PLAY_PAUSE sends cmd=pause exactly when the transport state
\* it fetched is "2", and when the pause is accepted the refresh the handler
\* runs before it returns shows PAUSED; VOLUME with 150 sends no request and
\* leaves the shown volume at 50.
C31_EndToEnd ==
    [][/\ (call'.op = "mp_connect" /\ result' /\ device = PlayingAtFifty)
            => mp'.attr_state = "PLAYING" /\ mp'.attr_volume = 50
       /\ (call'.op = "command" /\ call'.command = "PLAY_PAUSE" /\ call'.sent = 2)
            => /\ reqs'[2].endpoint
                    = (IF call'.fetched = "2" THEN EP_cmd("pause") ELSE EP_cmd("play"))
               /\ (mp.connected /\ IsOnAndReachable(device) /\ call'.fetched = "2"
                      /\ call'.status = "OK")
                    => mp'.attr_state = "PAUSED"
       /\ (call'.op = "command" /\ call'.command = "VOLUME" /\ call'.asked = 150)
            => /\ call'.sent = 0
               /\ call'.status = "SERVER_ERROR"
               /\ device' = device
               /\ (mp.attr_volume = 50 /\ device.volume = 50) => mp'.attr_volume = 50
      ]_vars

\* The end of the scenario: paused through PLAY_PAUSE, then VOLUME 150.
C31_Witness ==
    /\ call.op = "command" /\ call.command = "VOLUME" /\ call.asked = 150
    /\ call.sent = 0
    /\ mp.connected
    /\ mp.attr_state = "PAUSED"
    /\ mp.attr_volume = 50
    /\ device = [PlayingAtFifty EXCEPT !.transportState = "1"]

(***************************************************************************)
(* The number of polling loops (C32)                                       *)
(***************************************************************************)
\* The _periodic_update tasks that exist and have not been cancelled.
LiveLoops == { t \in TaskIds : tasks[t].pc # "none" /\ ~tasks[t].cancelled }

\* C32: under every interleaving of subscribe, unsubscribe, remote-disconnect
\* and entity-disconnect with the steps of the loops, at most one
\* _periodic_update loop that has not been cancelled exists.
C32_AtMostOneLoop == Cardinality(LiveLoops) <= 1

\* Stop immediately followed by start: the cancelled loop has not yet seen its
\* CancelledError when the new loop exists.
C32_Witness ==
    /\ call.op = "subscribe"
    /\ Cardinality(LiveLoops) = 1
    /\ \E t \in TaskIds : tasks[t].pc # "none" /\ tasks[t].cancelled

(***************************************************************************)
(* driver.py: _initialize_integration and the handlers that call it        *)
(***************************************************************************)
DeviceConfig(id, enabled) == [id |-> id, enabled |-> enabled]

\* config.add_device(): devices[device_config.id] = device_config; a key that
\* is there keeps its place, a new one goes to the end.
add_device(devices, device_config) ==
    IF \E k \in 1..Len(devices) : devices[k].id = device_config.id
    THEN [k \in 1..Len(devices) |->
             IF devices[k].id = device_config.id THEN device_config ELSE devices[k]]
    ELSE Append(devices, device_config)

\* The parameters the two constructors declare besides self.
NaimMediaPlayer_init == { "device_config", "entity_id" }
NaimRemote_init == { "device_config" }

\* The keyword the driver passes to both constructors.
EntityKeywords == { "entity_id" }

\* A call with a keyword the function does not declare raises TypeError.
Accepts(parameters, keywords) == keywords \subseteq parameters

MediaPlayerId(id) == <<"naim", id>>
RemoteId(id) == <<"naim_remote", id>>

\* What one iteration leaves: the globals, its addition to connected_devices,
\* and whether the device answered every handshake it was asked for.
Iterated(drv, connected, answered) ==
    [driver |-> drv, connected |-> connected, answered |-> answered]

Opened(c) == IF c.session THEN 1 ELSE 0

\* One iteration of the loop over config.config.devices.items(): handshake is
\* what the device answers the driver's client with, mp_connects and
\* remote_connects whether the entities' own connect() would succeed.
initialize_device(drv, device_config, handshake, mp_connects, remote_connects) ==
    LET id == device_config.id
        conn == ConnectOutcome(NewClient, handshake)
        answers == conn.result /\ mp_connects /\ remote_connects
    IN  IF ~device_config.enabled THEN Iterated(drv, 0, FALSE)
        ELSE IF ~conn.result
        THEN Iterated([drv EXCEPT !.open[id] = @ + Opened(DisconnectOutcome(conn.client))],
                      0, FALSE)
        ELSE IF ~Accepts(NaimMediaPlayer_init, EntityKeywords)
        THEN Iterated([drv EXCEPT !.open[id] = @ + Opened(conn.client)], 0, answers)
        ELSE IF ~Accepts(NaimRemote_init, EntityKeywords)
        THEN Iterated([drv EXCEPT !.created[id] = @ + 1,
                                  !.open[id] = @ + Opened(conn.client)], 0, answers)
        ELSE IF mp_connects /\ remote_connects
        THEN Iterated([drv EXCEPT !.created[id] = @ + 1,
                                  !.added[id] = @ + 1,
                                  !.clients = @ \cup { id },
                                  !.media_players = @ \cup { id },
                                  !.remotes = @ \cup { id },
                                  !.available_entities =
                                      @ \cup { MediaPlayerId(id), RemoteId(id) }],
                      1, TRUE)
        ELSE Iterated([drv EXCEPT !.created[id] = @ + 1,
                                  !.open[id] = @ + Opened(DisconnectOutcome(conn.client))],
                      0, FALSE)

\* A handler's step: the globals after it, and what it was.
DriverStep(drv, i, step) ==
    /\ driver' = drv
    /\ call' = [op |-> "driver", caller |-> i, step |-> step]
    /\ reqs' = <<>>
    /\ result' = FALSE
    /\ UNCHANGED <<client, mp, lastConnect, tasks, device, steppers>>

\* A handler reaches `await _initialize_integration()`.
Awaits(drv, i, via) ==
    [drv EXCEPT !.callers[i] = [NoCall EXCEPT !.pc = "waiting", !.via = via]]

Returns(drv, i) == [drv EXCEPT !.callers[i].pc = "returned"]

\* main(): the start-up task, created before any event is handled.
main(i) ==
    /\ \A j \in CallerIds : driver.callers[j].pc = "idle"
    /\ Len(driver.devices) > 0
    /\ DriverStep(Awaits(driver, i, "main"), i, "call")

on_connect(i) ==
    /\ driver.callers[i].pc = "idle"
    /\ IF Len(driver.devices) > 0
       THEN IF ~driver.entities_ready
            THEN DriverStep(Awaits(driver, i, "on_connect"), i, "call")
            ELSE DriverStep(Returns([driver EXCEPT !.device_state = "CONNECTED"], i), i, "skip")
       ELSE DriverStep(Returns([driver EXCEPT !.device_state = "DISCONNECTED"], i), i, "skip")

on_subscribe_entities(i) ==
    /\ driver.callers[i].pc = "idle"
    /\ IF ~driver.entities_ready
       THEN DriverStep(Awaits(driver, i, "on_subscribe_entities"), i, "call")
       ELSE DriverStep(Returns(driver, i), i, "skip")

\* _handle_single_device_setup from config.add_device() on.
handle_single_device_setup(i, id) ==
    /\ driver.callers[i].pc = "idle"
    /\ DriverStep(Awaits([driver EXCEPT !.devices = add_device(@, DeviceConfig(id, TRUE))],
                         i, "setup"),
                  i, "call")

\* _initialize_integration takes the lock: it returns at once when
\* entities_ready is set or nothing is configured, else it announces
\* CONNECTING and starts the loop.
Acquire(i) ==
    /\ driver.callers[i].pc = "waiting"
    /\ driver.lock = 0
    /\ IF driver.entities_ready \/ Len(driver.devices) = 0
       THEN DriverStep(Returns(driver, i), i, "early")
       ELSE DriverStep([driver EXCEPT !.lock = i,
                                      !.device_state = "CONNECTING",
                                      !.callers[i].pc = "loop",
                                      !.callers[i].index = 1,
                                      !.callers[i].size = Len(driver.devices)],
                       i, "enter")

InLoop(i) == driver.callers[i].pc = "loop"

\* The dict iterator raises RuntimeError at its next step when the dict
\* changed size after the loop began.
SizeChanged(i) == Len(driver.devices) # driver.callers[i].size

NextDevice(i, handshake, mp_connects, remote_connects) ==
    /\ InLoop(i) /\ ~SizeChanged(i)
    /\ driver.callers[i].index <= driver.callers[i].size
    /\ \E out \in { initialize_device(driver, driver.devices[driver.callers[i].index],
                                      handshake, mp_connects, remote_connects) } :
          DriverStep([out.driver EXCEPT
                        !.callers[i].index = @ + 1,
                        !.callers[i].connected_devices = @ + out.connected,
                        !.callers[i].answered =
                            IF out.answered
                            THEN @ \cup { driver.devices[driver.callers[i].index].id }
                            ELSE @],
                     i, "device")

\* RuntimeError leaves the loop and the function; `async with` releases the
\* lock.
IterationRaises(i) ==
    /\ InLoop(i) /\ SizeChanged(i)
    /\ DriverStep([driver EXCEPT !.lock = 0, !.callers[i].pc = "raised"], i, "raised")

\* After the loop.
Finish(i) ==
    /\ InLoop(i) /\ ~SizeChanged(i)
    /\ driver.callers[i].index > driver.callers[i].size
    /\ IF driver.callers[i].connected_devices > 0
       THEN DriverStep(Returns([driver EXCEPT !.lock = 0, !.entities_ready = TRUE,
                                              !.device_state = "CONNECTED"], i),
                       i, "finish")
       ELSE DriverStep(Returns([driver EXCEPT !.lock = 0, !.device_state = "ERROR"], i),
                       i, "finish")

\* The configurations the driver starts with.
DriverConfigs ==
    { <<>>,
      <<DeviceConfig("a", TRUE)>>,
      <<DeviceConfig("a", FALSE), DeviceConfig("b", TRUE)>>,
      <<DeviceConfig("a", TRUE), DeviceConfig("b", TRUE)>> }

DriverInit ==
    /\ client = NewClient
    /\ mp = NewMediaPlayer
    /\ call = [op |-> "init"]
    /\ reqs = <<>>
    /\ result = FALSE
    /\ lastConnect = [done |-> FALSE, ok |-> FALSE, marker |-> FALSE, revalidated |-> FALSE]
    /\ tasks = NewTasks
    /\ device = NewDevice(0)
    /\ steppers = NewSteppers
    /\ \E devices \in DriverConfigs : driver = NewDriver(devices)

DriverNext ==
    \/ \E i \in CallerIds : main(i)
    \/ \E i \in CallerIds : on_connect(i)
    \/ \E i \in CallerIds : on_subscribe_entities(i)
    \/ \E i \in CallerIds, id \in DeviceIds : handle_single_device_setup(i, id)
    \/ \E i \in CallerIds : Acquire(i)
    \/ \E i \in CallerIds, handshake \in PlayerHandshakes :
          \E mp_connects \in BOOLEAN, remote_connects \in BOOLEAN :
              NextDevice(i, handshake, mp_connects, remote_connects)
    \/ \E i \in CallerIds : IterationRaises(i)
    \/ \E i \in CallerIds : Finish(i)

DriverSpec == DriverInit /\ [][DriverNext]_vars

EnabledDevices == { driver.devices[k].id : k \in { j \in 1..Len(driver.devices) :
                                                      driver.devices[j].enabled } }

HasEntities(id) ==
    /\ id \in driver.media_players /\ id \in driver.remotes
    /\ MediaPlayerId(id) \in driver.available_entities
    /\ RemoteId(id) \in driver.available_entities

\* The call that just ran its loop to the end.
LoopFinished == call.op = "driver" /\ call.step = "finish"

\* C33: when at least one enabled device is reachable and answers every
\* handshake request, _initialize_integration ends with entities_ready true,
\* the device state CONNECTED and that device's client, media player and
\* remote in the registries and the available entities.
C33_InitializationSucceeds ==
    (LoopFinished /\ driver.callers[call.caller].answered # {})
        => /\ driver.entities_ready
           /\ driver.device_state = "CONNECTED"
           /\ \A id \in driver.callers[call.caller].answered :
                 id \in driver.clients /\ HasEntities(id)

\* C34: whenever entities_ready is true every enabled configured device has a
\* media player and a remote in the registries; a device that answers gets its
\* entities in the _initialize_integration call that follows its failure or
\* its addition by setup.
C34_ReadyMeansAllDevices ==
    /\ driver.entities_ready
          => \A id \in EnabledDevices : id \in driver.media_players /\ id \in driver.remotes
    /\ (call.op = "driver" /\ call.step \in {"finish", "early"})
          => \A id \in EnabledDevices \cap driver.callers[call.caller].answered :
                id \in driver.media_players /\ id \in driver.remotes

\* C35: initialization_lock serializes the calls: at most one is inside the
\* loop at a time, and each device's media player and remote are created and
\* added to the available entities at most once.
C35_SerializedAtMostOnce ==
    /\ Cardinality({ i \in CallerIds : InLoop(i) }) <= 1
    /\ \A i \in CallerIds : InLoop(i) => driver.lock = i
    /\ \A id \in DeviceIds : driver.created[id] <= 1 /\ driver.added[id] <= 1

\* C36: when _initialize_integration has returned, normally or by an
\* exception, every client it connected is stored in the registries or has
\* been disconnected.
C36_NoClientLeftOpen ==
    (call.op = "driver" /\ call.step \in {"finish", "raised"})
        => \A id \in DeviceIds : driver.open[id] = 0

====
